---- MODULE Spec2Model ----
(***************************************************************************)
(* A model of the SMTP server (mailserver_smtp.py), the POP3 server        *)
(* (popserver.py), the mailbox store (mailbox_manager.py) and the client's *)
(* dot-stuffing (mail_client.py).                                          *)
(*                                                                         *)
(* Text is modelled as a sequence of one-character strings, so framing,    *)
(* parsing and stuffing are computed on the bytes as the code does.        *)
(***************************************************************************)
EXTENDS Integers, Sequences, FiniteSets, TLC

VARIABLES
    smtp,        \* the SMTP ConnectionHandle's fields
    smtpPc,      \* "idle" before accept, "run" in the thread's loop, "done" after
    wire,        \* bytes the SMTP peer has sent that recv has not yet returned
    peerClosed,  \* the SMTP peer has closed its side of the connection
    smtpOut,     \* reply codes sent for the last framed unit
    smtpLast,    \* the last framed unit: how it was dispatched
    delivered,   \* arguments of the last process_mail call
    sentBlock,   \* the last message block the peer put on the wire
    clientPc,    \* where the SmptClient is in its calls ("raw": no SmptClient)
    mailboxFile, \* per user, the text of users/<user>/mailbox.txt
    pop,         \* per POP3 session, the ConnectionHandle's fields
    popPc,       \* per POP3 session: "idle", "run", "acquire" (inside PASS), "closed"
    popLast,     \* the last POP3 command handled: session, arguments, replies
    leaked,      \* mailboxes whose lock is held by a lock object no session refers to
    hist,        \* per POP3 session, the DELE commands answered +OK since the last RSET
    storeOp,     \* the last call of add_mail or delete_mail made on the store directly
    listener     \* accept_new_connections: its locals and the threads it started

smtpVars == <<smtp, smtpPc, wire, peerClosed, smtpOut, smtpLast, delivered,
              sentBlock, clientPc>>

popVars == <<mailboxFile, pop, popPc, popLast, leaked, hist>>

vars == <<smtpVars, popVars, storeOp, listener>>

--------------------------------------------------------------------------
(* Bounds of the model.                                                   *)

\* longest message body (in characters) handed to send_data
MaxBody == 3
\* recipients of one mail transaction after which the peer sends no more RCPT
MaxRcpt == 2
\* bytes that may still be unread when the peer sends again (pipelining)
MaxBacklog == 1
\* largest number of messages in a mailbox when the POP3 sessions start
MaxMails == 2

\* add_mail calls made on a mailbox directly
MaxAppends == 3

\* entries of a users file given to validate_user
MaxEntries == 3

\* ConnectionHandle threads an accept loop starts
MaxThreads == 5

--------------------------------------------------------------------------
(* Text helpers: Python's str/bytes operations on sequences of characters *)

None == <<"None">>

Min(a, b) == IF a < b THEN a ELSE b

\* s[a:b] for 0 <= a, python slice clamped to the length
Slice(s, a, b) == SubSeq(s, a + 1, Min(b, Len(s)))

\* s[a:]
SliceFrom(s, a) == SubSeq(s, a + 1, Len(s))

\* sub occurs in s at 0-based offset i
OccursAt(s, sub, i) ==
    /\ i >= 0
    /\ i + Len(sub) <= Len(s)
    /\ \A k \in 1..Len(sub) : s[i + k] = sub[k]

\* bytes.__contains__ / str.__contains__
Contains(s, sub) == \E i \in 0..Len(s) : OccursAt(s, sub, i)

\* str.find: lowest 0-based offset of sub in s, or -1
find(s, sub) ==
    IF Contains(s, sub)
    THEN CHOOSE i \in 0..Len(s) :
            /\ OccursAt(s, sub, i)
            /\ \A j \in 0..(i - 1) : ~OccursAt(s, sub, j)
    ELSE -1

\* bytes.partition: <<before, sep, after>> at the first occurrence
partition(s, sub) ==
    LET i == find(s, sub) IN
    IF i < 0 THEN <<s, <<>>, <<>>>>
    ELSE <<Slice(s, 0, i), sub, SliceFrom(s, i + Len(sub))>>

\* str.split(sep), sep non-empty
RECURSIVE split(_, _)
split(s, sep) ==
    LET i == find(s, sep) IN
    IF i < 0 THEN <<s>>
    ELSE <<Slice(s, 0, i)>> \o split(SliceFrom(s, i + Len(sep)), sep)

\* sep.join(parts)
RECURSIVE join(_, _)
join(sep, parts) ==
    IF Len(parts) = 0 THEN <<>>
    ELSE IF Len(parts) = 1 THEN parts[1]
    ELSE parts[1] \o sep \o join(sep, Tail(parts))

Whitespace == {" ", "\t", "\r", "\n"}

\* str.strip()
RECURSIVE lstrip(_)
lstrip(s) ==
    IF Len(s) > 0 /\ s[1] \in Whitespace THEN lstrip(Tail(s)) ELSE s

RECURSIVE rstrip(_)
rstrip(s) ==
    IF Len(s) > 0 /\ s[Len(s)] \in Whitespace
    THEN rstrip(SubSeq(s, 1, Len(s) - 1)) ELSE s

strip(s) == rstrip(lstrip(s))

\* str.upper() on the letters the model's peers use
UpperChar(c) ==
    CASE c = "a" -> "A" [] c = "d" -> "D" [] c = "e" -> "E" [] c = "f" -> "F"
      [] c = "h" -> "H" [] c = "i" -> "I" [] c = "l" -> "L" [] c = "m" -> "M"
      [] c = "o" -> "O" [] c = "p" -> "P" [] c = "r" -> "R" [] c = "t" -> "T"
      [] c = "x" -> "X" [] c = "b" -> "B" [] c = "c" -> "C" [] c = "n" -> "N"
      [] OTHER -> c

upper(s) == [k \in 1..Len(s) |-> UpperChar(s[k])]

--------------------------------------------------------------------------
(* mailbox_manager.py: the user registry and the mailbox store            *)

\* the users file: one <<username, password>> per line
UsersFile == << <<"bob", "right">>, <<"amy", "pw">> >>

Users == {"bob", "amy"}

get_users == [k \in 1..Len(UsersFile) |-> UsersFile[k][1]]

InList(x, list) == \E k \in 1..Len(list) : list[k] = x

\* [username, password] in [entry.strip().split(" ") for entry in f.readlines()]
validate_user(usersfile, username, password) ==
    InList(<<username, password>>, usersfile)

\* len(mail.encode("utf-8")); "U+E9" stands for the character e-acute, which
\* takes two bytes in UTF-8
RECURSIVE encoded_len(_)
encoded_len(mail) ==
    IF mail = <<>> THEN 0
    ELSE (IF mail[1] = "U+E9" THEN 2 ELSE 1) + encoded_len(Tail(mail))

\* str.splitlines()
RECURSIVE splitlines(_)
splitlines(text) ==
    IF text = <<>> THEN <<>>
    ELSE IF \E i \in 1..Len(text) : text[i] \in {"\n", "\r"}
    THEN LET brk == CHOOSE i \in 1..Len(text) :
                      /\ text[i] \in {"\n", "\r"}
                      /\ \A j \in 1..(i - 1) : text[j] \notin {"\n", "\r"}
             skip == IF text[brk] = "\r" /\ brk < Len(text) /\ text[brk + 1] = "\n"
                     THEN 2 ELSE 1
         IN  <<SubSeq(text, 1, brk - 1)>>
                \o splitlines(SubSeq(text, brk + skip, Len(text)))
    ELSE <<text>>

\* list.insert(i, x)
insert(list, i, x) ==
    SubSeq(list, 1, Min(i, Len(list))) \o <<x>>
        \o SubSeq(list, Min(i, Len(list)) + 1, Len(list))

MailSeparator == <<"\n", ".", "\n">>

\* the Received line for the formatted time `now`
received_line(now) == <<"R", ":", " ">> \o now

\* add_mail: the mailbox text after appending `mail` at time `now`
add_mail(file, mail, now) ==
    file \o join(<<"\n">>, insert(splitlines(mail), 3, received_line(now)))
         \o MailSeparator

RECURSIVE NonEmpty(_)
NonEmpty(list) ==
    IF list = <<>> THEN <<>>
    ELSE IF list[1] = <<>> THEN NonEmpty(Tail(list))
    ELSE <<list[1]>> \o NonEmpty(Tail(list))

\* get_all_mails: the mails of a mailbox text
get_all_mails(file) == NonEmpty(split(file, MailSeparator))

\* messages handed to add_mail before the POP3 sessions start
RawMails ==
    << <<"F", "\n", "T", "\n", "S", "\n", "h", "i">>,
       <<"F", "\n", "T", "\n", "S", "\n", "U+E9">>,
       <<"F", "\n", "T", "\n", "S", "\n", "a", "\n", "b">> >>

\* the mailbox text after add_mail of the first n of RawMails
RECURSIVE Delivered(_)
Delivered(n) ==
    IF n = 0 THEN <<>>
    ELSE add_mail(Delivered(n - 1), RawMails[((n - 1) % Len(RawMails)) + 1], <<"1">>)

\* get_mail: the mail at python index mail_n
get_mail(file, mail_n) == get_all_mails(file)[mail_n + 1]

\* list.pop(i) of each index of mail_n in turn; raised: IndexError
RECURSIVE PopEach(_, _)
PopEach(mails, mail_n) ==
    IF mail_n = <<>> THEN [raised |-> FALSE, mails |-> mails]
    ELSE IF mail_n[1] >= Len(mails) THEN [raised |-> TRUE, mails |-> mails]
    ELSE PopEach(SubSeq(mails, 1, mail_n[1])
                    \o SubSeq(mails, mail_n[1] + 2, Len(mails)),
                 Tail(mail_n))

\* delete_mail: the mailbox text after it, or raised with the text unchanged
delete_mail(file, mail_n) ==
    LET popped == PopEach(get_all_mails(file), mail_n) IN
    IF popped.raised THEN [raised |-> TRUE, file |-> file]
    ELSE [raised |-> FALSE,
          file |-> join(MailSeparator, popped.mails) \o MailSeparator]

\* no call has been made on the store directly
NoOp == [op |-> "none", before |-> <<>>, mail_n |-> <<>>, raised |-> FALSE,
         appended |-> <<>>]

--------------------------------------------------------------------------
(* accept_new_connections of SmtpServer and Pop3Server (the same code)    *)

\* the loop before its first iteration: `sock` and `addr` are unbound (0), no
\* ConnectionHandle thread was started, no accepted socket was closed
Listening ==
    [pc |-> "accept", sock |-> 0, threads |-> <<>>, closed |-> {}, last |-> "none"]

--------------------------------------------------------------------------
(* popserver.py: ConnectionHandle                                         *)

AUTH == 0
TRANSACTION == 1
NO_STATE == 0
USER == 1

PopSessions == {1, 2}

\* an attribute that has not been assigned yet
NoUser == ""
NoMaildrop == << <<"unset">> >>
NoLock == [user |-> NoUser, is_locked |-> FALSE]

\* the session after __init__ (_reset_state)
PopInit ==
    [pop3_state |-> AUTH, auth_state |-> NO_STATE, username |-> NoUser,
     maildrop |-> NoMaildrop, mailbox_lock |-> NoLock]

\* what a session has done in its transaction: the maildrop it authenticated
\* with and the messages it has marked since then, or since its last RSET
NoHist == [base |-> <<>>, dele |-> {}]

\* replies: send_postive_response, send_negative_response, send_response
Positive(nums) == [kind |-> "+OK", nums |-> nums]
Negative == [kind |-> "-ERR", nums |-> <<>>]
Line(nums) == [kind |-> "line", nums |-> nums]

\* int(args[0]) succeeds, for the argument tokens of the model
IsInt(tok) == tok \in {"0", "1", "2", "3", "4", "-1"}

int(tok) ==
    CASE tok = "0" -> 0 [] tok = "1" -> 1 [] tok = "2" -> 2 [] tok = "3" -> 3
      [] tok = "4" -> 4 [] tok = "-1" -> 0 - 1

\* list[i] for a python index i: the 1-based position, or 0 for IndexError
Position(list, i) ==
    IF i >= 0 /\ i < Len(list) THEN i + 1
    ELSE IF i < 0 /\ i >= 0 - Len(list) THEN Len(list) + i + 1
    ELSE 0

\* the advisory lock of user's mailbox is held by some lock object
FlockHeld(user) ==
    \/ user \in leaked
    \/ \E t \in PopSessions :
          pop[t].mailbox_lock = [user |-> user, is_locked |-> TRUE]

\* what a handler records: the command, its arguments and its replies
Handled(s, cmd, args, out) ==
    popLast' = [sid |-> s, cmd |-> cmd, args |-> args, out |-> out,
                pre |-> pop[s], preHist |-> hist[s]]

Running(s) == popPc[s] = "run"

\* close: the socket is closed and the thread exits; what the session holds
\* stays as it is
close(s) ==
    /\ popPc' = [popPc EXCEPT ![s] = "closed"]
    /\ UNCHANGED pop

\* the session ends on an end of stream or an error: the lock it holds is
\* released, the connection closed, the thread ended
Terminated(s) ==
    /\ pop' = [pop EXCEPT ![s].mailbox_lock.is_locked = FALSE]
    /\ popPc' = [popPc EXCEPT ![s] = "closed"]

\* the listener accepts a connection and starts its ConnectionHandle
Accept(s) ==
    /\ popPc[s] = "idle"
    /\ popPc' = [popPc EXCEPT ![s] = "run"]
    /\ pop' = [pop EXCEPT ![s] = PopInit]
    /\ popLast' = [sid |-> s, cmd |-> "connect", args |-> <<>>,
                   out |-> <<Positive(<<>>)>>, pre |-> pop[s],
                   preHist |-> hist[s]]
    /\ hist' = [hist EXCEPT ![s] = NoHist]
    /\ UNCHANGED <<mailboxFile, leaked>>

\* the peer closes the connection: read_until returns None
Disconnect(s) ==
    /\ Running(s)
    /\ Terminated(s)
    /\ Handled(s, "eof", <<>>, <<>>)
    /\ UNCHANGED <<mailboxFile, leaked, hist>>

\* the finalizer of a lock object that nothing refers to releases its lock
Finalize(user) ==
    /\ user \in leaked
    /\ leaked' = leaked \ {user}
    /\ UNCHANGED <<mailboxFile, pop, popPc, popLast, hist>>

pop3_QUIT(s) ==
    /\ Running(s)
    /\ IF pop[s].pop3_state = AUTH
       THEN /\ Handled(s, "QUIT", <<>>, <<Positive(<<>>)>>)
            /\ close(s)
       ELSE /\ UNCHANGED <<pop, popPc>>
            /\ Handled(s, "QUIT", <<>>, <<>>)
    /\ UNCHANGED <<mailboxFile, leaked, hist>>

UserArgs == {<<>>, <<"bob">>, <<"amy">>, <<"unknown">>}

\* pop3_USER recording the name before it looks it up
pop3_USER_records_first(s, args) ==
    /\ Running(s)
    /\ IF pop[s].auth_state = NO_STATE /\ args # <<>>
       THEN IF InList(args[1], get_users)
            THEN /\ Handled(s, "USER", args, <<Positive(<<>>)>>)
                 /\ pop' = [pop EXCEPT ![s].auth_state = USER,
                                       ![s].username = args[1]]
            ELSE /\ Handled(s, "USER", args, <<Negative>>)
                 /\ pop' = [pop EXCEPT ![s].username = args[1]]
       ELSE /\ Handled(s, "USER", args, <<Negative>>)
            /\ UNCHANGED pop
    /\ UNCHANGED <<mailboxFile, popPc, leaked, hist>>

pop3_USER(s, args) ==
    /\ Running(s)
    /\ IF pop[s].auth_state = NO_STATE
       THEN IF args = <<>>
            THEN /\ Handled(s, "USER", args, <<Negative>>)
                 /\ UNCHANGED pop
            ELSE IF InList(args[1], get_users)
            THEN /\ Handled(s, "USER", args, <<Positive(<<>>)>>)
                 /\ pop' = [pop EXCEPT ![s].auth_state = USER,
                                       ![s].username = args[1]]
            ELSE /\ Handled(s, "USER", args, <<Negative>>)
                 /\ UNCHANGED pop
       ELSE /\ Handled(s, "USER", args, <<Negative>>)
            /\ UNCHANGED pop
    /\ UNCHANGED <<mailboxFile, popPc, leaked, hist>>

PassArgs == {<<>>, <<"right">>, <<"pw">>, <<"wrong">>}

\* pop3_PASS up to the assignment of a new lock object to self.mailbox_lock;
\* a locked lock object it replaces is no longer referred to
pop3_PASS(s, args) ==
    /\ Running(s)
    /\ IF pop[s].auth_state = USER
       THEN IF args = <<>>
            THEN /\ Handled(s, "PASS", args, <<Negative>>)
                 /\ UNCHANGED <<pop, popPc, leaked>>
            ELSE IF validate_user(UsersFile, pop[s].username, args[1])
            THEN /\ pop' = [pop EXCEPT ![s].mailbox_lock =
                               [user |-> pop[s].username, is_locked |-> FALSE]]
                 /\ leaked' = IF pop[s].mailbox_lock.is_locked
                              THEN leaked \cup {pop[s].mailbox_lock.user}
                              ELSE leaked
                 /\ popPc' = [popPc EXCEPT ![s] = "acquire"]
                 /\ Handled(s, "PASS", args, <<>>)
            ELSE /\ Handled(s, "PASS", args, <<Negative>>)
                 /\ UNCHANGED <<pop, popPc, leaked>>
       ELSE /\ Handled(s, "PASS", args, <<Negative>>)
            /\ pop' = [pop EXCEPT ![s].auth_state = NO_STATE]
            /\ UNCHANGED <<popPc, leaked>>
    /\ UNCHANGED <<mailboxFile, hist>>

\* pop3_PASS from self.mailbox_lock.acquire(blocking=False) on: the lock is
\* free: +OK, the maildrop is loaded (or the store fails), TRANSACTION
pop3_PASS_acquired(s, store_ok) ==
    /\ popPc[s] = "acquire"
    /\ ~FlockHeld(pop[s].mailbox_lock.user)
    /\ popLast' = [popLast EXCEPT !.sid = s, !.cmd = "PASS",
                                  !.out = <<Positive(<<>>)>>]
    /\ IF store_ok
       THEN /\ pop' = [pop EXCEPT
                          ![s].mailbox_lock.is_locked = TRUE,
                          ![s].maildrop = get_all_mails(mailboxFile[pop[s].username]),
                          ![s].pop3_state = TRANSACTION]
            /\ popPc' = [popPc EXCEPT ![s] = "run"]
            /\ hist' = [hist EXCEPT ![s] =
                          IF pop[s].pop3_state = AUTH
                          THEN [base |-> get_all_mails(mailboxFile[pop[s].username]),
                                dele |-> {}]
                          ELSE @]
       ELSE /\ Terminated(s)
            /\ UNCHANGED hist
    /\ UNCHANGED <<mailboxFile, leaked>>

\* pop3_PASS from self.mailbox_lock.acquire(blocking=False) on: the lock is
\* held, filelock.Timeout is raised at once: -ERR
pop3_PASS_timeout(s) ==
    /\ popPc[s] = "acquire"
    /\ FlockHeld(pop[s].mailbox_lock.user)
    /\ popLast' = [popLast EXCEPT !.sid = s, !.cmd = "PASS",
                                  !.out = <<Negative>>]
    /\ popPc' = [popPc EXCEPT ![s] = "run"]
    /\ UNCHANGED <<mailboxFile, pop, leaked, hist>>

pop3_APOP(s) ==
    /\ Running(s)
    /\ Handled(s, "APOP", <<>>, <<Negative>>)
    /\ UNCHANGED <<mailboxFile, pop, popPc, leaked, hist>>

\* the messages of a maildrop that are not tombstones
Live(maildrop) == NonEmpty(maildrop)

RECURSIVE Octets(_)
Octets(mails) ==
    IF mails = <<>> THEN 0 ELSE encoded_len(mails[1]) + Octets(Tail(mails))

pop3_STAT(s) ==
    /\ Running(s)
    /\ IF pop[s].pop3_state = TRANSACTION
       THEN Handled(s, "STAT", <<>>,
                    <<Positive(<<Len(Live(pop[s].maildrop)),
                                 Octets(Live(pop[s].maildrop))>>)>>)
       ELSE Handled(s, "STAT", <<>>, <<Negative>>)
    /\ UNCHANGED <<mailboxFile, pop, popPc, leaked, hist>>

NumArgs == {<<>>, <<"0">>, <<"1">>, <<"2">>, <<"3">>, <<"4">>, <<"-1">>, <<"x">>}

pop3_LIST(s, args) ==
    /\ Running(s)
    /\ IF pop[s].pop3_state = TRANSACTION
       THEN IF args = <<>>
            THEN Handled(s, "LIST", args, <<Negative>>)
            ELSE Handled(s, "LIST", args,
                    <<Positive(<<Len(pop[s].maildrop)>>)>>
                    \o [k \in 1..Len(pop[s].maildrop) |->
                          Line(<<k, encoded_len(pop[s].maildrop[k])>>)]
                    \o <<[kind |-> ".", nums |-> <<>>]>>)
       ELSE Handled(s, "LIST", args, <<Negative>>)
    /\ UNCHANGED <<mailboxFile, pop, popPc, leaked, hist>>

pop3_RETR(s, args) ==
    /\ Running(s)
    /\ IF pop[s].pop3_state = TRANSACTION
       THEN IF args # <<>>
            THEN IF ~IsInt(args[1])
                 THEN \* ValueError
                      /\ Handled(s, "RETR", args, <<>>)
                      /\ Terminated(s)
                 ELSE IF Position(pop[s].maildrop, int(args[1]) - 1) = 0
                 THEN /\ Handled(s, "RETR", args, <<Negative>>)
                      /\ UNCHANGED <<pop, popPc>>
                 ELSE IF pop[s].maildrop[Position(pop[s].maildrop, int(args[1]) - 1)] # <<>>
                 THEN \* +OK with the length, then send_response() raises TypeError
                      /\ Handled(s, "RETR", args,
                           <<Positive(<<encoded_len(
                               pop[s].maildrop[Position(pop[s].maildrop,
                                                        int(args[1]) - 1)])>>)>>)
                      /\ Terminated(s)
                 ELSE /\ Handled(s, "RETR", args, <<>>)
                      /\ UNCHANGED <<pop, popPc>>
            ELSE /\ Handled(s, "RETR", args, <<Negative>>)
                 /\ UNCHANGED <<pop, popPc>>
       ELSE /\ Handled(s, "RETR", args, <<Negative>>)
            /\ UNCHANGED <<pop, popPc>>
    /\ UNCHANGED <<mailboxFile, leaked, hist>>

pop3_DELE(s, args) ==
    /\ Running(s)
    /\ IF pop[s].pop3_state = TRANSACTION
       THEN IF args # <<>>
            THEN IF ~IsInt(args[1])
                 THEN \* ValueError
                      /\ Handled(s, "DELE", args, <<>>)
                      /\ Terminated(s)
                      /\ UNCHANGED hist
                 ELSE LET pos == Position(pop[s].maildrop, int(args[1]) - 1) IN
                      IF pos = 0
                      THEN /\ Handled(s, "DELE", args, <<Negative>>)
                           /\ UNCHANGED <<pop, popPc, hist>>
                      ELSE IF pop[s].maildrop[pos] # <<>>
                      THEN /\ pop' = [pop EXCEPT ![s].maildrop[pos] = <<>>]
                           /\ hist' = [hist EXCEPT ![s].dele = @ \cup {pos}]
                           /\ Handled(s, "DELE", args, <<Positive(<<>>)>>)
                           /\ UNCHANGED popPc
                      ELSE /\ Handled(s, "DELE", args, <<Negative>>)
                           /\ UNCHANGED <<pop, popPc, hist>>
            ELSE /\ Handled(s, "DELE", args, <<Negative>>)
                 /\ UNCHANGED <<pop, popPc, hist>>
       ELSE /\ Handled(s, "DELE", args, <<Negative>>)
            /\ UNCHANGED <<pop, popPc, hist>>
    /\ UNCHANGED <<mailboxFile, leaked>>

\* pop3_NOOP answering without looking at pop3_state
pop3_NOOP_ungated(s) ==
    /\ Running(s)
    /\ Handled(s, "NOOP", <<>>, <<Positive(<<>>)>>)
    /\ UNCHANGED <<mailboxFile, pop, popPc, leaked, hist>>

pop3_NOOP(s) ==
    /\ Running(s)
    /\ IF pop[s].pop3_state = TRANSACTION
       THEN Handled(s, "NOOP", <<>>, <<Positive(<<>>)>>)
       ELSE Handled(s, "NOOP", <<>>, <<Negative>>)
    /\ UNCHANGED <<mailboxFile, pop, popPc, leaked, hist>>

\* _load_maildrop: the maildrop after it, with the lock held or not
load_maildrop(session, file) ==
    IF session.mailbox_lock.is_locked
    THEN [session EXCEPT !.maildrop = get_all_mails(file)]
    ELSE session

pop3_RSET(s, store_ok) ==
    /\ Running(s)
    /\ IF pop[s].pop3_state = TRANSACTION
       THEN IF store_ok \/ ~pop[s].mailbox_lock.is_locked
            THEN LET loaded == load_maildrop(pop[s], mailboxFile[pop[s].username]) IN
                 /\ pop' = [pop EXCEPT ![s] = loaded]
                 /\ Handled(s, "RSET", <<>>, <<Positive(<<Len(loaded.maildrop)>>)>>)
                 /\ hist' = [hist EXCEPT ![s].dele = {}]
                 /\ UNCHANGED popPc
            ELSE /\ Terminated(s)
                 /\ Handled(s, "RSET", <<>>, <<>>)
                 /\ UNCHANGED hist
       ELSE /\ Handled(s, "RSET", <<>>, <<Negative>>)
            /\ UNCHANGED <<pop, popPc, hist>>
    /\ UNCHANGED <<mailboxFile, leaked>>

pop3_TOP(s) ==
    /\ Running(s)
    /\ Handled(s, "TOP", <<>>, <<Negative>>)
    /\ UNCHANGED <<mailboxFile, pop, popPc, leaked, hist>>

pop3_UIDL(s) ==
    /\ Running(s)
    /\ Handled(s, "UIDL", <<>>, <<Negative>>)
    /\ UNCHANGED <<mailboxFile, pop, popPc, leaked, hist>>

\* the mailboxes when nothing has been delivered
NoMail == [u \in Users |-> <<>>]

\* no POP3 connection has been accepted
PopIdle ==
    /\ mailboxFile \in
          { [u \in Users |-> IF u = "bob" THEN Delivered(n) ELSE <<>>] :
              n \in 0..MaxMails }
    /\ pop = [s \in PopSessions |-> PopInit]
    /\ popPc = [s \in PopSessions |-> "idle"]
    /\ popLast = [sid |-> 0, cmd |-> "none", args |-> <<>>, out |-> <<>>,
                  pre |-> PopInit, preHist |-> NoHist]
    /\ leaked = {}
    /\ hist = [s \in PopSessions |-> NoHist]

\* one client at a time: every command, every argument
FirstSession == {1}

PopNext ==
    \/ \E s \in FirstSession : Accept(s) /\ UNCHANGED <<smtpVars, storeOp, listener>>
    \/ \E s \in FirstSession : Disconnect(s) /\ UNCHANGED <<smtpVars, storeOp, listener>>
    \/ \E u \in Users : Finalize(u) /\ UNCHANGED <<smtpVars, storeOp, listener>>
    \/ \E s \in FirstSession : pop3_QUIT(s) /\ UNCHANGED <<smtpVars, storeOp, listener>>
    \/ \E s \in FirstSession : \E args \in UserArgs : pop3_USER(s, args) /\ UNCHANGED <<smtpVars, storeOp, listener>>
    \/ \E s \in FirstSession : \E args \in PassArgs : pop3_PASS(s, args) /\ UNCHANGED <<smtpVars, storeOp, listener>>
    \/ \E s \in FirstSession : \E store_ok \in BOOLEAN : pop3_PASS_acquired(s, store_ok) /\ UNCHANGED <<smtpVars, storeOp, listener>>
    \/ \E s \in FirstSession : pop3_PASS_timeout(s) /\ UNCHANGED <<smtpVars, storeOp, listener>>
    \/ \E s \in FirstSession : pop3_APOP(s) /\ UNCHANGED <<smtpVars, storeOp, listener>>
    \/ \E s \in FirstSession : pop3_STAT(s) /\ UNCHANGED <<smtpVars, storeOp, listener>>
    \/ \E s \in FirstSession : \E args \in NumArgs : pop3_LIST(s, args) /\ UNCHANGED <<smtpVars, storeOp, listener>>
    \/ \E s \in FirstSession : \E args \in NumArgs : pop3_RETR(s, args) /\ UNCHANGED <<smtpVars, storeOp, listener>>
    \/ \E s \in FirstSession : \E args \in NumArgs : pop3_DELE(s, args) /\ UNCHANGED <<smtpVars, storeOp, listener>>
    \/ \E s \in FirstSession : pop3_NOOP(s) /\ UNCHANGED <<smtpVars, storeOp, listener>>
    \/ \E s \in FirstSession : \E store_ok \in BOOLEAN : pop3_RSET(s, store_ok) /\ UNCHANGED <<smtpVars, storeOp, listener>>
    \/ \E s \in FirstSession : pop3_TOP(s) /\ UNCHANGED <<smtpVars, storeOp, listener>>
    \/ \E s \in FirstSession : pop3_UIDL(s) /\ UNCHANGED <<smtpVars, storeOp, listener>>

\* concurrent clients that authenticate, count their messages, delete the
\* first, reset and quit
PopSharedNext ==
    \/ \E s \in PopSessions : Accept(s) /\ UNCHANGED <<smtpVars, storeOp, listener>>
    \/ \E s \in PopSessions : Disconnect(s) /\ UNCHANGED <<smtpVars, storeOp, listener>>
    \/ \E u \in Users : Finalize(u) /\ UNCHANGED <<smtpVars, storeOp, listener>>
    \/ \E s \in PopSessions : pop3_QUIT(s) /\ UNCHANGED <<smtpVars, storeOp, listener>>
    \/ \E s \in PopSessions : \E args \in UserArgs : pop3_USER(s, args) /\ UNCHANGED <<smtpVars, storeOp, listener>>
    \/ \E s \in PopSessions : \E args \in PassArgs : pop3_PASS(s, args) /\ UNCHANGED <<smtpVars, storeOp, listener>>
    \/ \E s \in PopSessions : pop3_PASS_acquired(s, TRUE) /\ UNCHANGED <<smtpVars, storeOp, listener>>
    \/ \E s \in PopSessions : pop3_PASS_timeout(s) /\ UNCHANGED <<smtpVars, storeOp, listener>>
    \/ \E s \in PopSessions : pop3_STAT(s) /\ UNCHANGED <<smtpVars, storeOp, listener>>
    \/ \E s \in PopSessions : pop3_DELE(s, <<"1">>) /\ UNCHANGED <<smtpVars, storeOp, listener>>
    \/ \E s \in PopSessions : pop3_RSET(s, TRUE) /\ UNCHANGED <<smtpVars, storeOp, listener>>

\* the SMTP session is not part of the POP3 specification
SmtpIdle ==
    /\ smtp = [smtp_state |-> 0, seen_greeting |-> <<>>, mailfrom |-> <<"None">>,
               rcpttos |-> <<>>, terminator |-> <<"\r", "\n">>,
               recieve_buffer |-> <<>>]
    /\ smtpPc = "idle"
    /\ wire = <<>>
    /\ peerClosed = FALSE
    /\ smtpOut = <<>>
    /\ smtpLast = [kind |-> "none"]
    /\ delivered = [called |-> FALSE]
    /\ sentBlock = [sent |-> FALSE]
    /\ clientPc = "raw"

\* POP3 sessions on mailboxes that hold up to MaxMails messages
PopStart == PopIdle /\ SmtpIdle /\ storeOp = NoOp /\ listener = Listening

SpecPop == PopStart /\ [][PopNext]_vars

SpecPopShared ==
    PopStart /\ [][PopSharedNext]_vars

--------------------------------------------------------------------------
(* mailbox_manager.py called directly, as test.py does                    *)

\* what add_mail writes for `mail` before the separator
modified_mail(mail, now) ==
    join(<<"\n">>, insert(splitlines(mail), 3, received_line(now)))

\* the list without the entries at the python indices of mail_n
Without(list, mail_n) ==
    NonEmpty([k \in 1..Len(list) |->
                IF \E j \in 1..Len(mail_n) : mail_n[j] = k - 1
                THEN <<>> ELSE <<list[k]>>])

\* `appended` without the boxes Without put around its entries
Unboxed(list) == [k \in 1..Len(list) |-> list[k][1]]

StoreAdd(rcpt, mail, now) ==
    /\ Len(storeOp.appended) < MaxAppends
    /\ Len(get_all_mails(mailboxFile[rcpt])) < MaxAppends
    /\ mailboxFile' = [mailboxFile EXCEPT ![rcpt] = add_mail(@, mail, now)]
    /\ storeOp' = [op |-> "add",
                   before |-> get_all_mails(mailboxFile[rcpt]),
                   mail_n |-> <<>>,
                   raised |-> FALSE,
                   appended |-> Append(storeOp.appended, modified_mail(mail, now))]
    /\ UNCHANGED <<smtpVars, pop, popPc, popLast, leaked, hist, listener>>

StoreDelete(username, mail_n) ==
    /\ mailboxFile' = [mailboxFile EXCEPT
                          ![username] = delete_mail(@, mail_n).file]
    /\ storeOp' = [op |-> "delete",
                   before |-> get_all_mails(mailboxFile[username]),
                   mail_n |-> mail_n,
                   raised |-> delete_mail(mailboxFile[username], mail_n).raised,
                   appended |-> Unboxed(Without(storeOp.appended, mail_n))]
    /\ UNCHANGED <<smtpVars, pop, popPc, popLast, leaked, hist, listener>>

\* add_mail with a mail in the documented format, with a body line `.`, or of
\* fewer than three lines with a CRLF line end; delete_mail with a list of one
\* or two distinct indices of the mailbox, in any order
StoreNext ==
    \/ \E mail \in { RawMails[1],
                      <<"F", "\n", "T", "\n", "S", "\n", "a", "\n", ".", "\n", "b">>,
                      <<"F", "\r", "\n", "T">> } :
          StoreAdd("bob", mail, <<"1">>)
    \/ LET last == Len(get_all_mails(mailboxFile["bob"])) - 1 IN
       \E mail_n \in { <<i>> : i \in 0..last }
                        \cup { p \in (0..last) \X (0..last) : p[1] # p[2] } :
          StoreDelete("bob", mail_n)

\* empty mailboxes, no session of either server
StoreStart ==
    /\ PopIdle /\ mailboxFile = NoMail /\ SmtpIdle
    /\ storeOp = NoOp /\ listener = Listening

SpecStore == StoreStart /\ [][StoreNext]_vars

\* validate_user called with a users file of at most MaxEntries entries, which
\* may name a user more than once
ValidateUser ==
    \E n \in 0..MaxEntries :
      \E usersfile \in [1..n -> Users \X {"right", "pw"}] :
        \E username \in Users, password \in {"right", "pw"} :
          /\ storeOp' = [op |-> "validate_user",
                         usersfile |-> usersfile,
                         username |-> username,
                         password |-> password,
                         result |-> validate_user(usersfile, username, password)]
          /\ UNCHANGED <<smtpVars, popVars, listener>>

SpecRegistry == StoreStart /\ [][ValidateUser]_vars

--------------------------------------------------------------------------
(* accept_new_connections: one iteration of `while True` per action       *)

\* accept() returns the socket of a new connection, numbered in the order of
\* arrival; a ConnectionHandle is constructed for it and started
AcceptConnection ==
    /\ listener.pc = "accept"
    /\ Len(listener.threads) < MaxThreads
    /\ LET connection == IF listener.threads = <<>> THEN 1
                         ELSE listener.threads[Len(listener.threads)] + 1
       IN  listener' = [listener EXCEPT !.sock = connection,
                                        !.threads = Append(@, connection),
                                        !.last = "accepted"]
    /\ UNCHANGED <<smtpVars, popVars, storeOp>>

\* accept() raises socket.timeout: `continue`
AcceptTimeout ==
    /\ listener.pc = "accept"
    /\ listener' = [listener EXCEPT !.last = "timeout"]
    /\ UNCHANGED <<smtpVars, popVars, storeOp>>

\* accept() raises another IOError: it is logged and the iteration goes on to
\* the lines after the try statement.  With `addr` unbound the f-string raises
\* UnboundLocalError and the loop ends; else a ConnectionHandle is constructed
\* for the socket of the last accepted connection: getpeername() on a socket
\* already closed raises an OSError that __init__ raises again and the loop
\* ends, on an open one the thread is started
AcceptError ==
    /\ listener.pc = "accept"
    /\ Len(listener.threads) < MaxThreads
    /\ listener' =
          IF listener.sock = 0 \/ listener.sock \in listener.closed
          THEN [listener EXCEPT !.pc = "stopped", !.last = "error"]
          ELSE [listener EXCEPT !.threads = Append(@, listener.sock),
                                !.last = "error"]
    /\ UNCHANGED <<smtpVars, popVars, storeOp>>

\* a started session closes its socket (close(), or run after an error)
SessionCloses ==
    /\ \E k \in 1..Len(listener.threads) :
         /\ listener.threads[k] \notin listener.closed
         /\ listener' = [listener EXCEPT !.closed = @ \cup {listener.threads[k]}]
    /\ UNCHANGED <<smtpVars, popVars, storeOp>>

ListenNext ==
    \/ AcceptConnection
    \/ AcceptTimeout
    \/ AcceptError
    \/ SessionCloses

SpecListener == StoreStart /\ [][ListenNext]_vars

--------------------------------------------------------------------------
(* mailserver_smtp.py: ConnectionHandle                                   *)

COMMAND == 0
DATA == 1

CRLF == <<"\r", "\n">>
DotTerminator == <<"\r", "\n", ".", "\r", "\n">>
linesep == <<"\r", "\n">>
dotsep == "."
newline == <<"\n">>

\* the session after __init__
SmtpInit ==
    [smtp_state |-> COMMAND, seen_greeting |-> <<>>, mailfrom |-> None,
     rcpttos |-> <<>>, terminator |-> CRLF, recieve_buffer |-> <<>>]

\* truthiness of an optional string
Falsy(x) == x = None \/ x = <<>>

\* _set_post_data_state without the assignment to rcpttos
set_post_data_state_keeps_rcpttos(s) ==
    [s EXCEPT !.smtp_state = COMMAND, !.mailfrom = None, !.terminator = CRLF]

set_post_data_state(s) ==
    [s EXCEPT !.smtp_state = COMMAND, !.mailfrom = None, !.rcpttos = <<>>,
              !.terminator = CRLF]

strip_command_keyword(keyword, data) ==
    IF upper(Slice(data, 0, Len(keyword))) = keyword
    THEN strip(SliceFrom(data, Len(keyword)))
    ELSE <<>>

\* <<address, remainder>>
getaddr(data) ==
    LET start_index == find(data, <<"<">>)
        end_index == find(data, <<">">>)
    IN  IF start_index # -1 /\ end_index # -1
        THEN <<Slice(data, start_index + 1, end_index),
               SliceFrom(data, end_index + 1)>>
        ELSE <<<<>>, data>>

\* a handler's result: the session, the replies sent, whether close() ran
Result(s, out) == [s |-> s, out |-> out, exit |-> FALSE]

\* smtp_HELO without the check for an earlier HELO
smtp_HELO_accepts_again(s, data) ==
    IF Falsy(data) THEN Result(s, <<501>>)
    ELSE Result([set_post_data_state(s) EXCEPT !.seen_greeting = data], <<250>>)

smtp_HELO(s, data) ==
    IF Falsy(data) THEN Result(s, <<501>>)
    ELSE IF s.seen_greeting # <<>> THEN Result(s, <<503>>)
    ELSE Result([set_post_data_state(s) EXCEPT !.seen_greeting = data], <<250>>)

\* smtp_MAIL without the check for parameters after the address
smtp_MAIL_accepts_params(s, data) ==
    IF s.seen_greeting = <<>> THEN Result(s, <<503>>)
    ELSE IF data = None THEN Result(s, <<501>>)
    ELSE LET a == getaddr(strip_command_keyword(<<"F", "R", "O", "M", ":">>, data))
             address == a[1]
         IN  IF address = <<>> THEN Result(s, <<501>>)
             ELSE IF ~Falsy(s.mailfrom) THEN Result(s, <<503>>)
             ELSE Result([s EXCEPT !.mailfrom = address], <<250>>)

\* smtp_MAIL without the check for an accepted HELO
smtp_MAIL_without_greeting(s, data) ==
    IF data = None THEN Result(s, <<501>>)
    ELSE LET a == getaddr(strip_command_keyword(<<"F", "R", "O", "M", ":">>, data))
             address == a[1]
             params == a[2]
         IN  IF address = <<>> THEN Result(s, <<501>>)
             ELSE IF ~Falsy(s.mailfrom) THEN Result(s, <<503>>)
             ELSE IF params # <<>> THEN Result(s, <<555>>)
             ELSE Result([s EXCEPT !.mailfrom = address], <<250>>)

smtp_MAIL(s, data) ==
    IF s.seen_greeting = <<>> THEN Result(s, <<503>>)
    ELSE IF data = None THEN Result(s, <<501>>)
    ELSE LET a == getaddr(strip_command_keyword(<<"F", "R", "O", "M", ":">>, data))
             address == a[1]
             params == a[2]
         IN  IF address = <<>> THEN Result(s, <<501>>)
             ELSE IF ~Falsy(s.mailfrom) THEN Result(s, <<503>>)
             ELSE IF params # <<>> THEN Result(s, <<555>>)
             ELSE Result([s EXCEPT !.mailfrom = address], <<250>>)

\* smtp_RCPT without the check for an earlier MAIL
smtp_RCPT_without_mail(s, data) ==
    IF s.seen_greeting = <<>> THEN Result(s, <<503>>)
    ELSE IF data = None THEN Result(s, <<501>>)
    ELSE LET a == getaddr(strip_command_keyword(<<"T", "O", ":">>, data))
             address == a[1]
             params == a[2]
         IN  IF address = <<>> THEN Result(s, <<501>>)
             ELSE IF params # <<>> THEN Result(s, <<555>>)
             ELSE Result([s EXCEPT !.rcpttos = Append(@, address)], <<250>>)

smtp_RCPT(s, data) ==
    IF s.seen_greeting = <<>> THEN Result(s, <<503>>)
    ELSE IF Falsy(s.mailfrom) THEN Result(s, <<503>>)
    ELSE IF data = None THEN Result(s, <<501>>)
    ELSE LET a == getaddr(strip_command_keyword(<<"T", "O", ":">>, data))
             address == a[1]
             params == a[2]
         IN  IF address = <<>> THEN Result(s, <<501>>)
             ELSE IF params # <<>> THEN Result(s, <<555>>)
             ELSE Result([s EXCEPT !.rcpttos = Append(@, address)], <<250>>)

\* smtp_DATA with the syntax check before the check for a recipient
smtp_DATA_syntax_first(s, data) ==
    IF s.seen_greeting = <<>> THEN Result(s, <<503>>)
    ELSE IF ~Falsy(data) THEN Result(s, <<501>>)
    ELSE IF s.rcpttos = <<>> THEN Result(s, <<503>>)
    ELSE Result([s EXCEPT !.smtp_state = DATA, !.terminator = DotTerminator],
                <<354>>)

\* smtp_DATA without the assignment to terminator
smtp_DATA_keeps_terminator(s, data) ==
    IF s.seen_greeting = <<>> THEN Result(s, <<503>>)
    ELSE IF s.rcpttos = <<>> THEN Result(s, <<503>>)
    ELSE IF ~Falsy(data) THEN Result(s, <<501>>)
    ELSE Result([s EXCEPT !.smtp_state = DATA], <<354>>)

smtp_DATA(s, data) ==
    IF s.seen_greeting = <<>> THEN Result(s, <<503>>)
    ELSE IF s.rcpttos = <<>> THEN Result(s, <<503>>)
    ELSE IF ~Falsy(data) THEN Result(s, <<501>>)
    ELSE Result([s EXCEPT !.smtp_state = DATA, !.terminator = DotTerminator],
                <<354>>)

\* smtp_QUIT without the call of close()
smtp_QUIT_keeps_running(s, data) == Result(s, <<221>>)

\* sends 221, then close(): conn.close() and sys.exit() end the thread
smtp_QUIT(s, data) == [s |-> s, out |-> <<221>>, exit |-> TRUE]

smtp_VRFY(s, data) ==
    IF ~Falsy(data)
    THEN IF getaddr(data)[1] # <<>> THEN Result(s, <<252>>)
         ELSE Result(s, <<502>>)
    ELSE Result(s, <<501>>)

\* smtp_RSET without the check of its argument
smtp_RSET_any_argument(s, data) == Result(set_post_data_state(s), <<250>>)

smtp_RSET(s, data) ==
    IF ~Falsy(data) THEN Result(s, <<501>>)
    ELSE Result(set_post_data_state(s), <<250>>)

\* smtp_NOOP clearing the envelope as smtp_RSET does
smtp_NOOP_resets(s, data) ==
    IF ~Falsy(data) THEN Result(s, <<501>>)
    ELSE Result(set_post_data_state(s), <<250>>)

smtp_NOOP(s, data) ==
    IF ~Falsy(data) THEN Result(s, <<501>>) ELSE Result(s, <<250>>)

HelpTopics ==
    { <<"H","E","L","O">>, <<"M","A","I","L">>, <<"R","C","P","T">>,
      <<"D","A","T","A">>, <<"R","S","E","T">>, <<"N","O","O","P">>,
      <<"Q","U","I","T">>, <<"V","R","F","Y">> }

\* smtp_HELP answering the request without argument with two lines
smtp_HELP_two_lines(s, data) ==
    IF ~Falsy(data)
    THEN IF upper(data) \in HelpTopics THEN Result(s, <<250>>)
         ELSE Result(s, <<501>>)
    ELSE Result(s, <<250, 250>>)

smtp_HELP(s, data) ==
    IF ~Falsy(data)
    THEN IF upper(data) \in HelpTopics THEN Result(s, <<250>>)
         ELSE Result(s, <<501>>)
    ELSE Result(s, <<250>>)

\* the acceptance callback: the base class does nothing and returns None
process_mail(peer, mailfrom, rcpttos, data) == None

\* the DATA branch of run stripping every leading dot of a line
RECURSIVE StripDots(_)
StripDots(line) ==
    IF line # <<>> /\ line[1] = dotsep THEN StripDots(Tail(line)) ELSE line

Unstuff_all_dots(data) ==
    LET lines == split(data, linesep) IN
    join(newline, [k \in 1..Len(lines) |-> StripDots(lines[k])])

\* the DATA branch of run: de-transparency of the framed block
Unstuff(data) ==
    LET lines == split(data, linesep)
        mail_data == [k \in 1..Len(lines) |->
                        IF lines[k] # <<>> /\ lines[k][1] = dotsep
                        THEN Tail(lines[k]) ELSE lines[k]]
    IN  join(newline, mail_data)

\* run, one iteration in COMMAND state: <<command keyword, arg>>
ParseCommand(data) ==
    LET i == find(data, <<" ">>) IN
    IF i < 0 THEN <<upper(data), None>>
    ELSE <<upper(Slice(data, 0, i)), strip(SliceFrom(data, i + 1))>>

\* the keywords for which getattr(self, "smtp_" + command) finds a method
SmtpKeywords == HelpTopics \cup { <<"H","E","L","P">> }

--------------------------------------------------------------------------
(* mail_client.py: SmptClient.send_data                                   *)

\* send_data escaping only a line that consists of a single dot
send_data_only_lone_dot(data) ==
    LET lines == split(data, newline)
        mail_data == [k \in 1..Len(lines) |->
                        IF lines[k] = <<dotsep>>
                        THEN <<dotsep>> \o lines[k] ELSE lines[k]]
    IN  join(linesep, mail_data) \o linesep \o <<dotsep>> \o linesep

\* the bytes send_data puts on the wire for the message `data`
send_data(data) ==
    LET lines == split(data, newline)
        mail_data == [k \in 1..Len(lines) |->
                        IF lines[k] # <<>> /\ lines[k][1] = dotsep
                        THEN <<dotsep>> \o lines[k] ELSE lines[k]]
    IN  join(linesep, mail_data) \o linesep \o <<dotsep>> \o linesep

\* BaseClient.send_command
send_command(command) == command \o CRLF

--------------------------------------------------------------------------
(* The SMTP peer: what it may put on the wire                             *)

L_HELO_other == <<"h","e","l","o"," ","h">>
L_MAIL == <<"M","A","I","L"," ","F","R","O","M",":","<","a","@","x",">">>
L_RCPT == <<"R","C","P","T"," ","T","O",":","<","b","@","x",">">>
L_DATA == <<"D","A","T","A">>
L_RSET == <<"R","S","E","T">>
L_QUIT == <<"Q","U","I","T">>

\* the lines a peer sends: the commands of a session and, beside them, HELO
\* with a host name, HELO, MAIL and RCPT without argument, DATA, RSET and NOOP
\* with an argument, VRFY and HELP with and without argument, an unknown
\* keyword and the empty line
SmtpLines ==
    { <<"H","E","L","O"," ","c","l","i","e","n","t",".","e","x","a","m","p","l","e">>,
      L_HELO_other, <<"H","E","L","O">>, L_MAIL, <<"M","A","I","L">>,
      L_RCPT, <<"r","c","p","t">>,
      L_DATA, <<"D","A","T","A"," ","x">>, L_RSET, <<"R","S","E","T"," ","x">>,
      L_QUIT, <<"N","O","O","P">>, <<"N","O","O","P"," ","x">>,
      <<"V","R","F","Y">>, <<"V","R","F","Y"," ","<","a","@","x",">">>,
      <<"V","R","F","Y"," ","x">>,
      <<"H","E","L","P">>, <<"H","E","L","P"," ","h","e","l","o">>,
      <<"h","e","l","p"," ","x">>,
      <<"F","O","O">>, <<>> }

\* every message body of at most MaxBody characters
Bodies == UNION { [1..n -> {"a", ".", "\r", "\n"}] : n \in 0..MaxBody }

\* the body of a two-line message whose second line is a single dot
DotLineBody == <<"H", "i", "\n", ".">>

\* the bytes `Hi\r\n.\r\n.\r\n`
RawDotBlock == <<"H", "i", "\r", "\n", ".", "\r", "\n", ".", "\r", "\n">>

NoBlock == [sent |-> FALSE, body |-> None, bytes |-> <<>>, clean |-> FALSE,
            later |-> <<>>]

NoDelivery == [called |-> FALSE, mailfrom |-> None, rcpttos |-> <<>>,
               data |-> <<>>]

NoUnit == [kind |-> "none", command |-> <<>>, arg |-> None, pre |-> SmtpInit]

Pending == Len(wire) + Len(smtp.recieve_buffer)

PeerCanSend ==
    /\ smtpPc = "run"
    /\ ~peerClosed
    /\ Pending <= MaxBacklog

\* the peer sends one command line
PeerSendLine ==
    /\ PeerCanSend
    /\ \E l \in SmtpLines :
         /\ l = L_RCPT => Len(smtp.rcpttos) < MaxRcpt
         /\ wire' = wire \o send_command(l)
         /\ sentBlock' = IF sentBlock.sent
                         THEN [sentBlock EXCEPT !.later = @ \o send_command(l)]
                         ELSE sentBlock
    /\ UNCHANGED <<smtp, smtpPc, peerClosed, smtpOut, smtpLast, delivered, clientPc>>

\* SmptClient.smtp_DATA after the 354: the peer sends a message through send_data
PeerSendData ==
    /\ PeerCanSend
    /\ smtpOut = <<354>>
    /\ ~sentBlock.sent
    /\ \E m \in {DotLineBody, <<>>} :
         /\ wire' = wire \o send_data(m)
         /\ sentBlock' = [sent |-> TRUE, body |-> m, bytes |-> send_data(m),
                          clean |-> Pending = 0, later |-> <<>>]
    /\ UNCHANGED <<smtp, smtpPc, peerClosed, smtpOut, smtpLast, delivered, clientPc>>

\* a peer that writes the block's bytes itself, after the 354
PeerSendRaw ==
    /\ PeerCanSend
    /\ smtpOut = <<354>>
    /\ ~sentBlock.sent
    /\ wire' = wire \o RawDotBlock
    /\ sentBlock' = [sent |-> TRUE, body |-> None, bytes |-> RawDotBlock,
                     clean |-> Pending = 0, later |-> <<>>]
    /\ UNCHANGED <<smtp, smtpPc, peerClosed, smtpOut, smtpLast, delivered, clientPc>>

\* the peer closes the connection
PeerClose ==
    /\ smtpPc = "run"
    /\ ~peerClosed
    /\ peerClosed' = TRUE
    /\ UNCHANGED <<smtp, smtpPc, wire, smtpOut, smtpLast, delivered, sentBlock,
                   clientPc>>

--------------------------------------------------------------------------
(* mailserver_smtp.py: ConnectionHandle._read_until and run               *)

\* _read_until forgetting what follows the terminator in the buffer
read_until_drops_remainder(buffer, sequence) ==
    <<partition(buffer, sequence)[1], <<>>>>

\* _read_until once the sequence is in the buffer: <<until_data, buffer>>
read_until(buffer, sequence) ==
    LET p == partition(buffer, sequence) IN <<p[1], p[3]>>

\* _read_until, one pass of its loop: recv returns some of the pending bytes
SmtpRecv ==
    /\ smtpPc = "run"
    /\ ~Contains(smtp.recieve_buffer, smtp.terminator)
    /\ wire # <<>>
    /\ \E k \in 1..Len(wire) :
         /\ smtp' = [smtp EXCEPT !.recieve_buffer = @ \o SubSeq(wire, 1, k)]
         /\ wire' = SubSeq(wire, k + 1, Len(wire))
    /\ UNCHANGED <<smtpPc, peerClosed, smtpOut, smtpLast, delivered, sentBlock,
                   clientPc>>

\* _read_until: recv returns no data (the peer closed), run's loop ends
SmtpRecvEOF ==
    /\ smtpPc = "run"
    /\ ~Contains(smtp.recieve_buffer, smtp.terminator)
    /\ wire = <<>>
    /\ peerClosed
    /\ smtpPc' = "done"
    /\ UNCHANGED <<smtp, wire, peerClosed, smtpOut, smtpLast, delivered,
                   sentBlock, clientPc>>

\* a unit is ready to be framed
UnitReady ==
    /\ smtpPc = "run"
    /\ Contains(smtp.recieve_buffer, smtp.terminator)

NextUnit == read_until(smtp.recieve_buffer, smtp.terminator)[1]

\* the session once _read_until has trimmed the buffer
Trimmed ==
    [smtp EXCEPT !.recieve_buffer =
        read_until(smtp.recieve_buffer, smtp.terminator)[2]]

\* what every iteration of run's loop records about the unit it framed
Framed(kind, command, arg) ==
    /\ smtpLast' = [kind |-> kind, command |-> command, arg |-> arg,
                    pre |-> smtp]
    /\ sentBlock' = IF delivered.called THEN NoBlock ELSE sentBlock
    /\ UNCHANGED <<wire, peerClosed, clientPc>>

\* run, COMMAND state: an empty line
RunEmpty ==
    /\ UnitReady
    /\ smtp.smtp_state = COMMAND
    /\ NextUnit = <<>>
    /\ smtp' = Trimmed
    /\ smtpOut' = <<500>>
    /\ delivered' = NoDelivery
    /\ Framed("empty", <<>>, None)
    /\ UNCHANGED smtpPc

\* run, COMMAND state: no method for the keyword
RunUnknown ==
    /\ UnitReady
    /\ smtp.smtp_state = COMMAND
    /\ NextUnit # <<>>
    /\ ParseCommand(NextUnit)[1] \notin SmtpKeywords
    /\ smtp' = Trimmed
    /\ smtpOut' = <<500>>
    /\ delivered' = NoDelivery
    /\ Framed("unknown", ParseCommand(NextUnit)[1], ParseCommand(NextUnit)[2])
    /\ UNCHANGED smtpPc

\* run, COMMAND state: the keyword's method is called with the argument
CommandReady(keyword) ==
    /\ UnitReady
    /\ smtp.smtp_state = COMMAND
    /\ NextUnit # <<>>
    /\ ParseCommand(NextUnit)[1] = keyword

Called(keyword, r) ==
    /\ smtp' = r.s
    /\ smtpOut' = r.out
    /\ smtpPc' = IF r.exit THEN "done" ELSE "run"
    /\ delivered' = NoDelivery
    /\ Framed("command", keyword, ParseCommand(NextUnit)[2])

RunHELO ==
    /\ CommandReady(<<"H","E","L","O">>)
    /\ Called(<<"H","E","L","O">>, smtp_HELO(Trimmed, ParseCommand(NextUnit)[2]))

RunMAIL ==
    /\ CommandReady(<<"M","A","I","L">>)
    /\ Called(<<"M","A","I","L">>, smtp_MAIL(Trimmed, ParseCommand(NextUnit)[2]))

RunRCPT ==
    /\ CommandReady(<<"R","C","P","T">>)
    /\ Called(<<"R","C","P","T">>, smtp_RCPT(Trimmed, ParseCommand(NextUnit)[2]))

RunDATA ==
    /\ CommandReady(<<"D","A","T","A">>)
    /\ Called(<<"D","A","T","A">>, smtp_DATA(Trimmed, ParseCommand(NextUnit)[2]))

RunRSET ==
    /\ CommandReady(<<"R","S","E","T">>)
    /\ Called(<<"R","S","E","T">>, smtp_RSET(Trimmed, ParseCommand(NextUnit)[2]))

RunNOOP ==
    /\ CommandReady(<<"N","O","O","P">>)
    /\ Called(<<"N","O","O","P">>, smtp_NOOP(Trimmed, ParseCommand(NextUnit)[2]))

RunQUIT ==
    /\ CommandReady(<<"Q","U","I","T">>)
    /\ Called(<<"Q","U","I","T">>, smtp_QUIT(Trimmed, ParseCommand(NextUnit)[2]))

RunVRFY ==
    /\ CommandReady(<<"V","R","F","Y">>)
    /\ Called(<<"V","R","F","Y">>, smtp_VRFY(Trimmed, ParseCommand(NextUnit)[2]))

RunHELP ==
    /\ CommandReady(<<"H","E","L","P">>)
    /\ Called(<<"H","E","L","P">>, smtp_HELP(Trimmed, ParseCommand(NextUnit)[2]))

\* run, DATA state: un-stuff the block, hand it over, reset, reply
RunDataBlock ==
    /\ UnitReady
    /\ smtp.smtp_state = DATA
    /\ LET received_data == Unstuff(NextUnit)
           status == process_mail("peer", smtp.mailfrom, smtp.rcpttos,
                                  received_data)
       IN  /\ delivered' = [called |-> TRUE, mailfrom |-> smtp.mailfrom,
                            rcpttos |-> smtp.rcpttos, data |-> received_data]
           /\ smtp' = set_post_data_state(Trimmed)
           /\ smtpOut' = IF Falsy(status) THEN <<250>> ELSE <<status>>
    /\ smtpLast' = [kind |-> "data", command |-> <<>>, arg |-> None,
                    pre |-> smtp]
    /\ UNCHANGED <<smtpPc, wire, peerClosed, sentBlock, clientPc>>

SmtpStart ==
    /\ smtp = SmtpInit
    /\ smtpPc = "run"
    /\ wire = <<>>
    /\ peerClosed = FALSE
    /\ smtpOut = <<220>>
    /\ smtpLast = NoUnit
    /\ delivered = NoDelivery
    /\ sentBlock = NoBlock
    /\ clientPc = "raw"

SmtpNext ==
    \/ PeerSendLine /\ UNCHANGED <<popVars, storeOp, listener>>
    \/ PeerSendData /\ UNCHANGED <<popVars, storeOp, listener>>
    \/ PeerSendRaw /\ UNCHANGED <<popVars, storeOp, listener>>
    \/ PeerClose /\ UNCHANGED <<popVars, storeOp, listener>>
    \/ SmtpRecv /\ UNCHANGED <<popVars, storeOp, listener>>
    \/ SmtpRecvEOF /\ UNCHANGED <<popVars, storeOp, listener>>
    \/ RunEmpty /\ UNCHANGED <<popVars, storeOp, listener>>
    \/ RunUnknown /\ UNCHANGED <<popVars, storeOp, listener>>
    \/ RunHELO /\ UNCHANGED <<popVars, storeOp, listener>>
    \/ RunMAIL /\ UNCHANGED <<popVars, storeOp, listener>>
    \/ RunRCPT /\ UNCHANGED <<popVars, storeOp, listener>>
    \/ RunDATA /\ UNCHANGED <<popVars, storeOp, listener>>
    \/ RunRSET /\ UNCHANGED <<popVars, storeOp, listener>>
    \/ RunNOOP /\ UNCHANGED <<popVars, storeOp, listener>>
    \/ RunQUIT /\ UNCHANGED <<popVars, storeOp, listener>>
    \/ RunVRFY /\ UNCHANGED <<popVars, storeOp, listener>>
    \/ RunHELP /\ UNCHANGED <<popVars, storeOp, listener>>
    \/ RunDataBlock /\ UNCHANGED <<popVars, storeOp, listener>>

\* an SMTP session beside an idle POP3 server
SmtpOnly == SmtpStart /\ PopIdle /\ mailboxFile = NoMail /\ storeOp = NoOp /\ listener = Listening

SpecSmtp == SmtpOnly /\ [][SmtpNext]_vars

--------------------------------------------------------------------------
(* A peer that sends HELO, RSET and MAIL lines of every shape             *)

\* MAIL lines: the client's, and lines with
MailLines ==
    { L_MAIL,
      \* no argument
      <<"M","A","I","L">>,
      \* no FROM:
      <<"M","A","I","L"," ","<","a",">">>,
      \* lower case
      <<"m","a","i","l"," ","f","r","o","m",":","<","b",">">>,
      \* empty address
      <<"M","A","I","L"," ","F","R","O","M",":","<",">">>,
      \* a parameter after the address
      <<"M","A","I","L"," ","F","R","O","M",":","<","a",">"," ","X">>,
      \* a `>` before the `<`
      <<"M","A","I","L"," ","F","R","O","M",":",">","x","<","a",">">>,
      \* text before the `<`
      <<"M","A","I","L"," ","F","R","O","M",":","j","<","a",">">>,
      \* no `>`
      <<"M","A","I","L"," ","F","R","O","M",":","<","a">>,
      \* a second `>`
      <<"M","A","I","L"," ","F","R","O","M",":","<","a",">","b",">">>,
      \* a blank address
      <<"M","A","I","L"," ","F","R","O","M",":","<"," ",">">> }

\* the peer sends a HELO, a RSET or one of the MAIL lines
PeerSendMailLine ==
    /\ PeerCanSend
    /\ \E l \in MailLines \cup {L_HELO_other, L_RSET} :
         /\ wire' = wire \o send_command(l)
         /\ sentBlock' = IF sentBlock.sent
                         THEN [sentBlock EXCEPT !.later = @ \o send_command(l)]
                         ELSE sentBlock
    /\ UNCHANGED <<smtp, smtpPc, peerClosed, smtpOut, smtpLast, delivered, clientPc>>

MailNext ==
    \/ PeerSendMailLine /\ UNCHANGED <<popVars, storeOp, listener>>
    \/ SmtpRecv /\ UNCHANGED <<popVars, storeOp, listener>>
    \/ RunHELO /\ UNCHANGED <<popVars, storeOp, listener>>
    \/ RunMAIL /\ UNCHANGED <<popVars, storeOp, listener>>
    \/ RunRSET /\ UNCHANGED <<popVars, storeOp, listener>>

\* an SMTP session that only negotiates the sender
SpecMail == SmtpOnly /\ [][MailNext]_vars

--------------------------------------------------------------------------
(* A peer that pipelines: several lines and blocks in one write           *)

\* what the peer writes at once, with the number of RCPT lines in it: every
\* command alone, a message block alone, and runs of commands and blocks
Bursts ==
    LET c(l) == send_command(l)
        RCPT_c == <<"R","C","P","T"," ","T","O",":","<","c",">">>
        NOOP == <<"N","O","O","P">>
        block == send_data(NOOP)
        b(bytes, rcpt) == [bytes |-> bytes, rcpt |-> rcpt]
    IN  { b(c(L_HELO_other), 0), b(c(L_MAIL), 0), b(c(L_RCPT), 1), b(c(RCPT_c), 1),
          b(c(L_DATA), 0), b(c(L_RSET), 0), b(c(L_RSET \o <<" ">>), 0),
          b(c(L_RSET \o <<" ","x">>), 0),
          b(c(L_QUIT), 0), b(c(NOOP), 0), b(block, 0),
          b(c(L_DATA) \o block \o c(NOOP), 0),
          b(c(L_DATA) \o block \o c(L_MAIL), 0),
          b(c(L_QUIT) \o c(NOOP), 0),
          b(c(L_QUIT) \o c(L_HELO_other), 0),
          b(c(<<"H","E","L","P">>) \o c(<<>>) \o c(<<"V","R","F","Y">>)
              \o c(<<"F","O","O">>), 0),
          b(c(L_RCPT) \o c(RCPT_c) \o c(L_DATA) \o block \o c(L_RSET), 2),
          b(c(RCPT_c) \o c(L_RCPT) \o c(L_DATA) \o block \o c(L_QUIT) \o c(NOOP), 2) }

\* the peer writes a burst once everything it wrote before was framed
PeerSendBurst ==
    /\ PeerCanSend
    /\ \E burst \in Bursts :
         /\ Len(smtp.rcpttos) + burst.rcpt <= MaxRcpt
         /\ wire' = wire \o burst.bytes
    /\ UNCHANGED <<smtp, smtpPc, peerClosed, smtpOut, smtpLast, delivered, sentBlock,
                   clientPc>>

PipeNext ==
    \/ PeerSendBurst /\ UNCHANGED <<popVars, storeOp, listener>>
    \/ SmtpRecv /\ UNCHANGED <<popVars, storeOp, listener>>
    \/ RunEmpty /\ UNCHANGED <<popVars, storeOp, listener>>
    \/ RunUnknown /\ UNCHANGED <<popVars, storeOp, listener>>
    \/ RunHELO /\ UNCHANGED <<popVars, storeOp, listener>>
    \/ RunMAIL /\ UNCHANGED <<popVars, storeOp, listener>>
    \/ RunRCPT /\ UNCHANGED <<popVars, storeOp, listener>>
    \/ RunDATA /\ UNCHANGED <<popVars, storeOp, listener>>
    \/ RunRSET /\ UNCHANGED <<popVars, storeOp, listener>>
    \/ RunNOOP /\ UNCHANGED <<popVars, storeOp, listener>>
    \/ RunQUIT /\ UNCHANGED <<popVars, storeOp, listener>>
    \/ RunVRFY /\ UNCHANGED <<popVars, storeOp, listener>>
    \/ RunHELP /\ UNCHANGED <<popVars, storeOp, listener>>
    \/ RunDataBlock /\ UNCHANGED <<popVars, storeOp, listener>>

\* an SMTP session whose peer pipelines
SpecPipe == SmtpOnly /\ [][PipeNext]_vars

--------------------------------------------------------------------------
(* mail_client.py: SmptClient driving the server, one call after another  *)


\* _handle_response(code): the reply to everything sent so far is `code`
Replied(code) ==
    /\ Pending = 0
    /\ smtpOut = <<code>>

ClientSends(bytes, pc) ==
    /\ wire' = wire \o bytes
    /\ clientPc' = pc
    /\ UNCHANGED <<smtp, smtpPc, peerClosed, smtpOut, smtpLast, delivered>>

\* SmptClient.__init__: the 220 greeting, then smtp_HELO
ClientHELO ==
    /\ clientPc = "connected"
    /\ Replied(220)
    /\ ClientSends(send_command(<<"H","E","L","O"," ","h">>), "helo")
    /\ UNCHANGED sentBlock

\* send_mail: smtp_MAIL
ClientMAIL ==
    /\ clientPc = "helo"
    /\ Replied(250)
    /\ ClientSends(send_command(<<"M","A","I","L"," ","F","R","O","M",":"," ","<","a",">">>),
                   "mail")
    /\ UNCHANGED sentBlock

\* send_mail: smtp_RCPT
ClientRCPT ==
    /\ clientPc = "mail"
    /\ Replied(250)
    /\ ClientSends(send_command(<<"R","C","P","T"," ","T","O",":"," ","<","b",">">>),
                   "rcpt")
    /\ UNCHANGED sentBlock

\* smtp_DATA: the DATA command
ClientDATA ==
    /\ clientPc = "rcpt"
    /\ Replied(250)
    /\ ClientSends(send_command(L_DATA), "data")
    /\ UNCHANGED sentBlock

\* smtp_DATA: after the 354, send_data(data)
ClientSendData ==
    /\ clientPc = "data"
    /\ Replied(354)
    /\ \E m \in Bodies :
         /\ ClientSends(send_data(m), "block")
         /\ sentBlock' = [sent |-> TRUE, body |-> m, bytes |-> send_data(m),
                          clean |-> Pending = 0, later |-> <<>>]

\* close: smtp_QUIT once the block was answered 250
ClientQUIT ==
    /\ clientPc = "block"
    /\ Replied(250)
    /\ ClientSends(send_command(L_QUIT), "quit")
    /\ sentBlock' = [sentBlock EXCEPT !.later = @ \o send_command(L_QUIT)]

\* close: the socket is closed after the 221
ClientClose ==
    /\ clientPc = "quit"
    /\ Replied(221)
    /\ clientPc' = "closed"
    /\ peerClosed' = TRUE
    /\ UNCHANGED <<smtp, smtpPc, wire, smtpOut, smtpLast, delivered, sentBlock>>

ClientStart ==
    /\ smtp = SmtpInit
    /\ smtpPc = "run"
    /\ wire = <<>>
    /\ peerClosed = FALSE
    /\ smtpOut = <<220>>
    /\ smtpLast = NoUnit
    /\ delivered = NoDelivery
    /\ sentBlock = NoBlock
    /\ clientPc = "connected"

ClientNext ==
    \/ ClientHELO /\ UNCHANGED <<popVars, storeOp, listener>>
    \/ ClientMAIL /\ UNCHANGED <<popVars, storeOp, listener>>
    \/ ClientRCPT /\ UNCHANGED <<popVars, storeOp, listener>>
    \/ ClientDATA /\ UNCHANGED <<popVars, storeOp, listener>>
    \/ ClientSendData /\ UNCHANGED <<popVars, storeOp, listener>>
    \/ ClientQUIT /\ UNCHANGED <<popVars, storeOp, listener>>
    \/ ClientClose /\ UNCHANGED <<popVars, storeOp, listener>>
    \/ SmtpRecv /\ UNCHANGED <<popVars, storeOp, listener>>
    \/ RunHELO /\ UNCHANGED <<popVars, storeOp, listener>>
    \/ RunMAIL /\ UNCHANGED <<popVars, storeOp, listener>>
    \/ RunRCPT /\ UNCHANGED <<popVars, storeOp, listener>>
    \/ RunDATA /\ UNCHANGED <<popVars, storeOp, listener>>
    \/ RunQUIT /\ UNCHANGED <<popVars, storeOp, listener>>
    \/ RunDataBlock /\ UNCHANGED <<popVars, storeOp, listener>>

\* the client and an SMTP session beside an idle POP3 server
ClientOnly == ClientStart /\ PopIdle /\ mailboxFile = NoMail /\ storeOp = NoOp /\ listener = Listening

SpecClient == ClientOnly /\ [][ClientNext]_vars

--------------------------------------------------------------------------
(* Claims about the SMTP session                                          *)

KW_HELO == <<"H","E","L","O">>
KW_RCPT == <<"R","C","P","T">>
KW_DATA == <<"D","A","T","A">>

\* the last unit was dispatched to the handler of `keyword`
LastCommand(keyword) ==
    /\ smtpLast.kind = "command"
    /\ smtpLast.command = keyword

\* C4: an RCPT handled while no MAIL is accepted in the current transaction
\* is answered 503, whatever its argument, and the recipient list is empty
\* before and after it.
C4_RcptNeedsMail ==
    (LastCommand(KW_RCPT) /\ Falsy(smtpLast.pre.mailfrom))
        => /\ smtpOut = <<503>>
           /\ smtpLast.pre.rcpttos = <<>>
           /\ smtp.rcpttos = <<>>
           /\ Falsy(smtp.mailfrom)

\* an RCPT with a well-formed argument, after HELO and without MAIL, got 503
C4_Witness ==
    /\ LastCommand(KW_RCPT)
    /\ smtpLast.pre.seen_greeting # <<>>
    /\ Falsy(smtpLast.pre.mailfrom)
    /\ smtpLast.arg = <<"T","O",":","<","b","@","x",">">>
    /\ smtpOut = <<503>>

\* C5: a DATA handled while no recipient is recorded is answered 503, whatever
\* its argument, and leaves the session in COMMAND state with terminator CRLF;
\* DATA is answered 354 and switches to DATA state exactly when HELO was seen,
\* a recipient is recorded and the argument is empty.
C5_DataNeedsRcpt ==
    LastCommand(KW_DATA) =>
        /\ smtpLast.pre.rcpttos = <<>>
              => /\ smtpOut = <<503>>
                 /\ smtp.smtp_state = COMMAND
                 /\ smtp.terminator = CRLF
        /\ (smtpOut = <<354>>) <=> (smtp.smtp_state = DATA)
        /\ (smtp.smtp_state = DATA) <=> (smtp.terminator = DotTerminator)
        /\ (smtpOut = <<354>>)
              <=> /\ smtpLast.pre.seen_greeting # <<>>
                  /\ smtpLast.pre.rcpttos # <<>>
                  /\ Falsy(smtpLast.arg)

\* a DATA sent after HELO and MAIL, but before any RCPT, got 503
C5_Witness ==
    /\ LastCommand(KW_DATA)
    /\ smtpLast.pre.seen_greeting # <<>>
    /\ ~Falsy(smtpLast.pre.mailfrom)
    /\ smtpLast.pre.rcpttos = <<>>
    /\ smtpOut = <<503>>
    /\ smtp.smtp_state = COMMAND

\* the greeting and the envelope are what they were before the last unit
EnvelopeKept ==
    /\ smtp.seen_greeting = smtpLast.pre.seen_greeting
    /\ smtp.mailfrom = smtpLast.pre.mailfrom
    /\ smtp.rcpttos = smtpLast.pre.rcpttos

\* C6 as stated: every HELO after an accepted HELO, with or without an
\* argument, is answered 503 and leaves the greeting and the envelope unchanged.
C6_Original ==
    (LastCommand(KW_HELO) /\ smtpLast.pre.seen_greeting # <<>>)
        => /\ smtpOut = <<503>>
           /\ EnvelopeKept

\* C6 as amended: a HELO after an accepted HELO is answered 503 when it has an
\* argument and 501 when it has none; either way the greeting and the envelope
\* are unchanged.
C6_HeloOnce ==
    (LastCommand(KW_HELO) /\ smtpLast.pre.seen_greeting # <<>>)
        => /\ smtpOut = IF Falsy(smtpLast.arg) THEN <<501>> ELSE <<503>>
           /\ EnvelopeKept

\* a second HELO naming another host, with a MAIL pending, got 503
C6_Witness ==
    /\ LastCommand(KW_HELO)
    /\ smtpLast.pre.seen_greeting # <<>>
    /\ ~Falsy(smtpLast.arg)
    /\ smtpLast.arg # smtpLast.pre.seen_greeting
    /\ ~Falsy(smtpLast.pre.mailfrom)
    /\ smtpOut = <<503>>

\* a message block was sent while nothing was pending, and has been processed
BlockProcessed ==
    /\ smtpLast.kind = "data"
    /\ delivered.called
    /\ sentBlock.sent
    /\ sentBlock.clean

\* C7: for every message body m, send_data(m) framed on CRLF.CRLF and
\* un-stuffed by the server is m again, and the receive buffer holds nothing
\* of the block (only what was sent after it).
C7_RoundTrip ==
    (BlockProcessed /\ sentBlock.body # None)
        => /\ delivered.data = sentBlock.body
           /\ smtp.recieve_buffer \o wire = sentBlock.later

\* a body of two lines that both begin with a dot made the round trip
C7_Witness ==
    /\ BlockProcessed
    /\ sentBlock.body = <<".", "\n", ".">>
    /\ delivered.data = <<".", "\n", ".">>
    /\ smtp.recieve_buffer = <<>>

\* the envelope of scenario A: HELO client.example, MAIL FROM:<a@x>, RCPT TO:<b@x>
ScenarioA ==
    /\ BlockProcessed
    /\ smtpLast.pre.seen_greeting =
          <<"c","l","i","e","n","t",".","e","x","a","m","p","l","e">>
    /\ delivered.mailfrom = <<"a","@","x">>
    /\ delivered.rcpttos = << <<"b","@","x">> >>

HasDotLine(data) ==
    \E k \in 1..Len(split(data, newline)) : split(data, newline)[k] = <<".">>

\* C8 as stated: in scenario A the bytes `Hi\r\n.\r\n.\r\n` deliver a body
\* with a line equal to `.`, and the reply is 250.
C8_Original ==
    (ScenarioA /\ sentBlock.bytes = RawDotBlock)
        => /\ HasDotLine(delivered.data)
           /\ smtpOut = <<250>>

\* C8 as amended: in scenario A the bytes `Hi\r\n..\r\n.\r\n` (the dot line
\* escaped) deliver the body `Hi\n.`, whose second line is `.`, with reply 250;
\* the bytes `Hi\r\n.\r\n.\r\n` deliver the body `Hi`, with reply 250, and leave
\* `.\r\n` to be framed as the next command.
C8_ScenarioA ==
    /\ (ScenarioA /\ sentBlock.bytes = send_data(DotLineBody))
          => /\ delivered.data = DotLineBody
             /\ split(delivered.data, newline)[2] = <<".">>
             /\ smtpOut = <<250>>
             /\ smtp.recieve_buffer \o wire = sentBlock.later
    /\ (ScenarioA /\ sentBlock.bytes = RawDotBlock)
          => /\ delivered.data = <<"H", "i">>
             /\ smtpOut = <<250>>
             /\ smtp.recieve_buffer \o wire = <<".", "\r", "\n">> \o sentBlock.later

\* scenario A with the escaped dot line has delivered a line equal to `.`
C8_Witness ==
    /\ ScenarioA
    /\ sentBlock.bytes = <<"H","i","\r","\n",".",".","\r","\n",".","\r","\n">>
    /\ HasDotLine(delivered.data)
    /\ smtpOut = <<250>>

--------------------------------------------------------------------------
(* POP3: locking, QUIT, STAT and DELE                                     *)

\* the session is open and its phase is TRANSACTION
InTransaction(s) ==
    (popPc[s] = "run" \/ popPc[s] = "acquire") /\ pop[s].pop3_state = TRANSACTION

\* the last command handled was cmd, received in TRANSACTION
LastInTransaction(cmd) ==
    popLast.cmd = cmd /\ popLast.pre.pop3_state = TRANSACTION

\* C1 (as stated): of the open sessions that authenticated for the same
\* mailbox, at most one is in TRANSACTION at any time.
C1_Original ==
    \A s, t \in PopSessions :
        (s # t /\ InTransaction(s) /\ InTransaction(t))
            => pop[s].username # pop[t].username

\* C2 (as stated): after QUIT in TRANSACTION the reply is positive, the
\* connection is closed and the mailbox holds exactly the messages that were
\* not tombstoned, in their order.
C2_Original ==
    LastInTransaction("QUIT") =>
        /\ popLast.out = <<Positive(<<>>)>>
        /\ popPc[popLast.sid] = "closed"
        /\ get_all_mails(mailboxFile[popLast.pre.username])
              = Live(popLast.pre.maildrop)

\* C3 (as stated): a session that has ended holds no mailbox lock, and QUIT
\* in TRANSACTION ends the session and releases its lock.
C3_Original ==
    /\ \A s \in PopSessions :
          popPc[s] = "closed" => ~pop[s].mailbox_lock.is_locked
    /\ LastInTransaction("QUIT") =>
          /\ popPc[popLast.sid] = "closed"
          /\ ~pop[popLast.sid].mailbox_lock.is_locked

\* the messages of the maildrop a session authenticated with, without those
\* it has deleted since then or since its last RSET
Undeleted(h) ==
    Live([k \in 1..Len(h.base) |-> IF k \in h.dele THEN <<>> ELSE h.base[k]])

\* C9 (as stated): STAT in a transaction reports the count and the octets of
\* the messages at authentication less those deleted by the successful DELE
\* commands since then or since the last RSET, and RSET restores the maildrop
\* to the messages before the deletions.
C9_Original ==
    /\ LastInTransaction("STAT") =>
          popLast.out = <<Positive(<<Len(Undeleted(popLast.preHist)),
                                     Octets(Undeleted(popLast.preHist))>>)>>
    /\ (LastInTransaction("RSET") /\ popLast.out # <<>>) =>
          /\ pop[popLast.sid].maildrop = popLast.preHist.base
          /\ popLast.out = <<Positive(<<Len(popLast.preHist.base)>>)>>

\* C10 (as stated): in a transaction, DELE k for a valid k that a successful
\* DELE k has deleted, with no RSET since, gets a negative reply and leaves
\* the maildrop unchanged.
C10_Original ==
    (/\ LastInTransaction("DELE")
     /\ popLast.args # <<>>
     /\ popLast.args[1] \in {"1", "2", "3", "4"}
     /\ int(popLast.args[1]) \in popLast.preHist.dele) =>
        /\ popLast.out = <<Negative>>
        /\ pop[popLast.sid].maildrop = popLast.pre.maildrop

\* the last command handled was cmd with an integer argument, in TRANSACTION
LastNumbered(cmd) ==
    /\ LastInTransaction(cmd)
    /\ popLast.args # <<>>
    /\ IsInt(popLast.args[1])

\* n is the number of a slot of the maildrop that holds a message
LiveSlot(maildrop, n) ==
    n >= 1 /\ n <= Len(maildrop) /\ maildrop[n] # <<>>

\* C11 (as stated): in TRANSACTION, DELE n is answered positively and
\* tombstones slot n exactly when 1 <= n <= number of slots and slot n holds a
\* message; for every other n (0, negative, above the slot count) the reply is
\* negative and no slot changes.
C11_Original ==
    LastNumbered("DELE") =>
        LET n == int(popLast.args[1])
            before == popLast.pre.maildrop
            after == pop[popLast.sid].maildrop
        IN  IF LiveSlot(before, n)
            THEN /\ popLast.out = <<Positive(<<>>)>>
                 /\ after = [before EXCEPT ![n] = <<>>]
            ELSE /\ popLast.out = <<Negative>>
                 /\ after = before

\* C12: a USER command answered negatively (unknown name, no argument, or a
\* name already accepted) leaves the session as it was, authentication state
\* and recorded name included; and while no name is accepted, USER with a
\* registered name is answered positively and records it, whatever USER
\* commands failed before.
C12_UserFailureKeeps ==
    popLast.cmd = "USER" =>
        /\ popLast.out = <<Negative>> => pop[popLast.sid] = popLast.pre
        /\ (/\ popLast.pre.auth_state = NO_STATE
            /\ popLast.args # <<>>
            /\ popLast.args[1] \in Users)
              => /\ popLast.out = <<Positive(<<>>)>>
                 /\ pop[popLast.sid].auth_state = USER
                 /\ pop[popLast.sid].username = popLast.args[1]

\* `USER unknown` was answered negatively and no name is accepted
C12_Witness ==
    /\ popLast.cmd = "USER"
    /\ popLast.args = <<"unknown">>
    /\ popLast.out = <<Negative>>
    /\ pop[popLast.sid].auth_state = NO_STATE
    /\ pop[popLast.sid].username = NoUser

\* the commands of the TRANSACTION state
TransactionCommands ==
    {"STAT", "LIST", "RETR", "DELE", "RSET", "NOOP", "TOP", "UIDL"}

\* C13: while pop3_state is AUTH, each of STAT, LIST, RETR, DELE, RSET, NOOP,
\* TOP and UIDL, whatever its argument, is answered by one negative reply and
\* leaves the session (pop3_state, auth_state, maildrop, lock), the locks held
\* and the mailboxes as they were.
C13_TransactionGating ==
    (popLast.cmd \in TransactionCommands /\ popLast.pre.pop3_state = AUTH) =>
        /\ popLast.out = <<Negative>>
        /\ pop[popLast.sid] = popLast.pre
        /\ popPc[popLast.sid] = "run"
        /\ ~pop[popLast.sid].mailbox_lock.is_locked
        /\ pop[popLast.sid].maildrop = NoMaildrop

\* NOOP, sent after USER was accepted and before PASS, was refused
C13_Witness ==
    /\ popLast.cmd = "NOOP"
    /\ popLast.pre.pop3_state = AUTH
    /\ popLast.pre.auth_state = USER
    /\ popLast.out = <<Negative>>
    /\ pop[popLast.sid].auth_state = USER

\* the `<index> <octets>` lines of the messages of a maildrop, by slot number
RECURSIVE ScanLines(_, _)
ScanLines(maildrop, k) ==
    IF k > Len(maildrop) THEN <<>>
    ELSE (IF maildrop[k] # <<>>
          THEN <<Line(<<k, encoded_len(maildrop[k])>>)>> ELSE <<>>)
         \o ScanLines(maildrop, k + 1)

EndMarker == [kind |-> ".", nums |-> <<>>]

\* C14 (as stated): in TRANSACTION, LIST without argument is answered by a
\* positive count header, one `<index> <octets>` line for each slot that holds
\* a message, in increasing slot order and none for a tombstone, and a final
\* line `.`.
C14_Original ==
    (LastInTransaction("LIST") /\ popLast.args = <<>>) =>
        /\ Len(popLast.out) = Len(ScanLines(popLast.pre.maildrop, 1)) + 2
        /\ popLast.out[1].kind = "+OK"
        /\ SubSeq(popLast.out, 2, Len(popLast.out) - 1)
              = ScanLines(popLast.pre.maildrop, 1)
        /\ popLast.out[Len(popLast.out)] = EndMarker

\* C15 (as stated): in TRANSACTION, LIST n is answered by the single positive
\* line `<n> <octets>` of slot n exactly when 1 <= n <= slot count and slot n
\* holds a message, and by a negative reply otherwise.
C15_Original ==
    LastNumbered("LIST") =>
        LET n == int(popLast.args[1])
            maildrop == popLast.pre.maildrop
        IN  IF LiveSlot(maildrop, n)
            THEN popLast.out = <<Positive(<<n, encoded_len(maildrop[n])>>)>>
            ELSE popLast.out = <<Negative>>

\* C16 (as stated): in TRANSACTION, RETR n is answered by a positive reply
\* with the octet count, the message of slot n as a multi-line block and a
\* final line `.` exactly when 1 <= n <= slot count and slot n holds a message,
\* and by exactly one negative reply in every other case; the session goes on.
C16_Original ==
    LastNumbered("RETR") =>
        LET n == int(popLast.args[1])
            maildrop == popLast.pre.maildrop
        IN  /\ popPc[popLast.sid] = "run"
            /\ IF LiveSlot(maildrop, n)
               THEN /\ Len(popLast.out) >= 3
                    /\ popLast.out[1] = Positive(<<encoded_len(maildrop[n])>>)
                    /\ popLast.out[Len(popLast.out)] = EndMarker
               ELSE popLast.out = <<Negative>>

\* C17 (as stated): in TRANSACTION, RSET replaces the maildrop by the messages
\* now in the store, so that no slot is a tombstone, and its positive reply
\* reports the number of messages of the new maildrop.
C17_Original ==
    (LastInTransaction("RSET") /\ popLast.out # <<>>) =>
        LET stored == get_all_mails(mailboxFile[popLast.pre.username]) IN
        /\ pop[popLast.sid].maildrop = stored
        /\ popLast.out = <<Positive(<<Len(stored)>>)>>

\* C29 (as stated): between two commands, a session is in TRANSACTION exactly
\* when it holds the lock of its mailbox and has loaded a maildrop.
C29_Original ==
    \A s \in PopSessions :
        popPc[s] = "run" =>
            (pop[s].pop3_state = TRANSACTION <=>
                /\ pop[s].mailbox_lock = [user |-> pop[s].username, is_locked |-> TRUE]
                /\ pop[s].maildrop # NoMaildrop)

\* C30 (as stated): auth_state is USER exactly when a username is recorded and
\* the phase is AUTH, and a PASS received in TRANSACTION is not accepted: its
\* reply is negative and the session is unchanged.
C30_Original ==
    /\ \A s \in PopSessions :
          popPc[s] \in {"run", "acquire"} =>
              (pop[s].auth_state = USER <=>
                  pop[s].username # NoUser /\ pop[s].pop3_state = AUTH)
    /\ LastInTransaction("PASS") =>
          /\ popLast.out = <<Negative>>
          /\ pop[popLast.sid] = popLast.pre

\* C31 (as stated): while the snapshot is not loaded again (PASS, RSET), the
\* number of slots of the maildrop never changes, and a DELE n changes no slot
\* other than slot n: every other index j names the same message before and
\* after it.
C31_Original ==
    /\ (popLast.pre.pop3_state = TRANSACTION /\ popLast.cmd \notin {"PASS", "RSET"})
          => Len(pop[popLast.sid].maildrop) = Len(popLast.pre.maildrop)
    /\ LastNumbered("DELE") =>
          \A j \in 1..Len(popLast.pre.maildrop) :
              j # int(popLast.args[1])
                  => pop[popLast.sid].maildrop[j] = popLast.pre.maildrop[j]

\* C33 (as stated): in TRANSACTION, a DELE or RETR without argument and a DELE,
\* RETR or LIST whose argument is not an integer get exactly one negative
\* reply and leave the maildrop, the lock and the phase as they were, and the
\* session stays open for the next command.
C33_Original ==
    (/\ popLast.cmd \in {"DELE", "RETR", "LIST"}
     /\ popLast.pre.pop3_state = TRANSACTION
     /\ IF popLast.args = <<>> THEN popLast.cmd # "LIST"
        ELSE ~IsInt(popLast.args[1]))
        => /\ popLast.out = <<Negative>>
           /\ pop[popLast.sid].maildrop = popLast.pre.maildrop
           /\ pop[popLast.sid].mailbox_lock = popLast.pre.mailbox_lock
           /\ pop[popLast.sid].pop3_state = TRANSACTION
           /\ popPc[popLast.sid] # "closed"

\* C35 (as stated): in a transaction, once STAT, LIST, RETR, NOOP, TOP, UIDL,
\* APOP, USER, PASS or a DELE answered negatively has been handled and the
\* session is still open, every slot of the maildrop, tombstones included, is
\* as it was before the command, and the session holds the same lock.
C35_Original ==
    (/\ popLast.pre.pop3_state = TRANSACTION
     /\ \/ popLast.cmd \in {"STAT", "LIST", "RETR", "NOOP", "TOP", "UIDL",
                            "APOP", "USER", "PASS"}
        \/ popLast.cmd = "DELE" /\ popLast.out = <<Negative>>
     /\ popPc[popLast.sid] = "run")
        => /\ pop[popLast.sid].maildrop = popLast.pre.maildrop
           /\ pop[popLast.sid].mailbox_lock = popLast.pre.mailbox_lock


--------------------------------------------------------------------------
(* the mailbox store                                                      *)

\* C18 (as stated): for every mailbox and every list of distinct valid
\* indices, in any order, delete_mail leaves in the mailbox exactly the mails
\* whose positions are not in the list, in their order and unchanged, and
\* get_all_mails returns them.
C18_Original ==
    storeOp.op = "delete" =>
        /\ ~storeOp.raised
        /\ get_all_mails(mailboxFile["bob"])
              = Unboxed(Without(storeOp.before, storeOp.mail_n))

\* C19 (as stated): after any sequence of add_mail and delete_mail calls,
\* get_all_mails returns one entry for each mail stored, in the order of the
\* add_mail calls, each the text handed to add_mail with its Received line
\* inserted, also for a mail with a line `.`.
C19_Original ==
    storeOp.op # "none" =>
        get_all_mails(mailboxFile["bob"]) = storeOp.appended

--------------------------------------------------------------------------
(* Claims about the SMTP MAIL command                                     *)

KW_MAIL == <<"M","A","I","L">>

\* 1-based positions of character `ch` in `text`
Positions(text, ch) == { k \in 1..Len(text) : text[k] = ch }

\* the smallest member of a non-empty set of numbers
Least(S) == CHOOSE k \in S : \A j \in S : k <= j

\* the argument of the last MAIL begins with the keyword FROM: (in any case)
HasFromKeyword ==
    /\ smtpLast.arg # None
    /\ Len(smtpLast.arg) >= 5
    /\ upper(SubSeq(smtpLast.arg, 1, 5)) = <<"F","R","O","M",":">>

\* what follows the keyword, without surrounding white space
AfterFrom == strip(SubSeq(smtpLast.arg, 6, Len(smtpLast.arg)))

\* some `<`, at least one character other than `<` and `>`, then a `>` that
\* ends the argument
EnclosedAddressEndsArgument ==
    /\ HasFromKeyword
    /\ \E i \in Positions(AfterFrom, "<") :
         \E j \in Positions(AfterFrom, ">") :
            /\ j > i + 1
            /\ j = Len(AfterFrom)
            /\ \A k \in (i + 1)..(j - 1) : AfterFrom[k] \notin {"<", ">"}

\* the first `<` precedes the first `>` with at least one character between
FirstBracketsHoldAddress ==
    /\ HasFromKeyword
    /\ Positions(AfterFrom, "<") # {}
    /\ Positions(AfterFrom, ">") # {}
    /\ Least(Positions(AfterFrom, ">")) > Least(Positions(AfterFrom, "<")) + 1

FirstOpen == Least(Positions(AfterFrom, "<"))
FirstClose == Least(Positions(AfterFrom, ">"))

\* C20 as stated: a MAIL is answered 250, and sets mailfrom, exactly when HELO
\* was accepted, no MAIL is pending and the argument is FROM: followed by text
\* holding a non-empty address in `<...>` whose closing `>` ends the argument;
\* otherwise the reply is 503, 501 or 555 and mailfrom is unchanged
C20_Original ==
    LastCommand(KW_MAIL) =>
        LET accepted == /\ smtpLast.pre.seen_greeting # <<>>
                        /\ Falsy(smtpLast.pre.mailfrom)
                        /\ EnclosedAddressEndsArgument
        IN  /\ accepted => smtpOut = <<250>> /\ ~Falsy(smtp.mailfrom)
            /\ ~accepted => /\ smtpOut \in {<<503>>, <<501>>, <<555>>}
                            /\ smtp.mailfrom = smtpLast.pre.mailfrom

\* C20, amended: a MAIL is answered 503 without an accepted HELO; else 501 when
\* the argument is missing, lacks FROM:, or its first `<` is not followed, after
\* at least one character, by its first `>`; else 503 when a MAIL is pending;
\* else 555 when anything follows that first `>`; else 250, and only then does
\* mailfrom change, to the text between the first `<` and the first `>`
C20_MailAcceptance ==
    LastCommand(KW_MAIL) =>
        LET pre == smtpLast.pre
            expected ==
                IF pre.seen_greeting = <<>> THEN 503
                ELSE IF ~FirstBracketsHoldAddress THEN 501
                ELSE IF ~Falsy(pre.mailfrom) THEN 503
                ELSE IF FirstClose # Len(AfterFrom) THEN 555
                ELSE 250
        IN  /\ smtpOut = <<expected>>
            /\ smtp.mailfrom = IF expected = 250
                               THEN SubSeq(AfterFrom, FirstOpen + 1, FirstClose - 1)
                               ELSE pre.mailfrom
            /\ smtp.seen_greeting = pre.seen_greeting
            /\ smtp.rcpttos = pre.rcpttos

\* a MAIL whose lower-case keyword and address `<b>` were accepted after a HELO
C20_Witness ==
    /\ LastCommand(KW_MAIL)
    /\ smtpLast.arg = <<"f","r","o","m",":","<","b",">">>
    /\ smtpLast.pre.seen_greeting # <<>>
    /\ smtpOut = <<250>>
    /\ smtp.mailfrom = <<"b">>

--------------------------------------------------------------------------
(* Claims about the SMTP session: blocks, RSET, QUIT, framing, invariants *)

\* this step frames a unit: run's loop takes one from the buffer
FramesUnit ==
    /\ Contains(smtp.recieve_buffer, smtp.terminator)
    /\ smtp' # smtp

\* this step is an RCPT answered 250
AcceptsRcpt ==
    /\ FramesUnit
    /\ smtpLast'.kind = "command"
    /\ smtpLast'.command = KW_RCPT
    /\ smtpOut' = <<250>>

\* this step clears the envelope
ClearsEnvelope == smtp'.mailfrom = None /\ smtp'.rcpttos = <<>>

KW_RSET == <<"R","S","E","T">>

\* C22: an RSET without argument, or with an empty one, is answered 250, leaves
\* mailfrom None and rcpttos empty and keeps the recorded greeting, so that a
\* MAIL is accepted next when a HELO had been accepted; an RSET with an
\* argument is answered 501 and changes nothing
C22_Rset ==
    LastCommand(KW_RSET) =>
        LET pre == smtpLast.pre IN
        IF Falsy(smtpLast.arg)
        THEN /\ smtpOut = <<250>>
             /\ smtp.mailfrom = None
             /\ smtp.rcpttos = <<>>
             /\ smtp.seen_greeting = pre.seen_greeting
             /\ smtp.smtp_state = COMMAND
             /\ smtp.terminator = CRLF
             /\ pre.seen_greeting # <<>> =>
                    smtp_MAIL(smtp, <<"F","R","O","M",":","<","a",">">>).out = <<250>>
        ELSE /\ smtpOut = <<501>>
             /\ smtp.mailfrom = pre.mailfrom
             /\ smtp.rcpttos = pre.rcpttos
             /\ smtp.seen_greeting = pre.seen_greeting
             /\ smtp.smtp_state = pre.smtp_state
             /\ smtp.terminator = pre.terminator

\* an RSET answered 250 has cleared a sender and two recipients
C22_Witness ==
    /\ LastCommand(KW_RSET)
    /\ smtpLast.pre.mailfrom = <<"a","@","x">>
    /\ Len(smtpLast.pre.rcpttos) = 2
    /\ smtpOut = <<250>>
    /\ smtp.mailfrom = None
    /\ smtp.rcpttos = <<>>
    /\ smtp.seen_greeting = <<"h">>

KW_QUIT == <<"Q","U","I","T">>

\* C23: the step that frames a QUIT line in COMMAND state sends the one reply
\* 221 and ends the session, whatever the session holds; once the session has
\* ended no step frames a unit, sends a reply or changes the session, whatever
\* is left in the receive buffer
C23_Quit ==
    [][/\ (FramesUnit /\ smtpLast'.kind = "command" /\ smtpLast'.command = KW_QUIT) =>
            /\ smtpOut' = <<221>>
            /\ smtpPc' = "done"
       /\ smtpPc = "done" =>
            /\ smtpPc' = "done"
            /\ UNCHANGED <<smtp, smtpOut, smtpLast, delivered>>
      ]_vars

\* a QUIT sent with a sender pending was answered 221 and ended the session
\* while a complete command line is left in the receive buffer
C23_Witness ==
    /\ LastCommand(KW_QUIT)
    /\ smtpLast.pre.mailfrom # None
    /\ smtpOut = <<221>>
    /\ smtpPc = "done"
    /\ Contains(smtp.recieve_buffer, CRLF)

--------------------------------------------------------------------------
(* Claims about the user registry                                         *)

\* C24 as stated: validate_user is true exactly when the first entry of the
\* users file with the given username has the given password
C24_Original ==
    storeOp.op = "validate_user" =>
        LET file == storeOp.usersfile
            named == { k \in 1..Len(file) : file[k][1] = storeOp.username }
        IN  storeOp.result =
                /\ named # {}
                /\ file[Least(named)][2] = storeOp.password

--------------------------------------------------------------------------
(* Claims about the accept loops                                          *)

\* C25 as stated: the accept loop goes on after a failed accept, and no
\* connection has two sessions
C25_Original ==
    /\ listener.pc = "accept"
    /\ \A j, k \in 1..Len(listener.threads) :
          listener.threads[j] = listener.threads[k] => j = k

--------------------------------------------------------------------------
(* Claims about the framer                                                *)

\* the bytes received or in flight that no unit has consumed
Unconsumed == smtp.recieve_buffer \o wire

\* 1-based positions at which `sequence` occurs in `stream`
Occurrences(stream, sequence) ==
    { k \in 1..(Len(stream) - Len(sequence) + 1) :
        SubSeq(stream, k, k + Len(sequence) - 1) = sequence }

TerminatorOf(state) == IF state = DATA THEN DotTerminator ELSE CRLF

\* C28: the session's terminator is the one of its state, before and after
\* every step.  A unit framed in DATA state ends at the first CRLF . CRLF of
\* the unconsumed stream and is handed to process_mail, not dispatched; a unit
\* framed in COMMAND state ends at the first CRLF and is dispatched as a line,
\* not handed to process_mail; a DATA answered 354 puts the session in DATA
\* state, so what follows it is framed as its block, and the step after a
\* block frames in COMMAND state again
C28_FramingFollowsState ==
    [][/\ smtp.terminator = TerminatorOf(smtp.smtp_state)
       /\ smtp'.terminator = TerminatorOf(smtp'.smtp_state)
       /\ FramesUnit =>
            LET term == TerminatorOf(smtp.smtp_state)
                first == Least(Occurrences(Unconsumed, term))
                unit == SubSeq(Unconsumed, 1, first - 1)
            IN  /\ Occurrences(Unconsumed, term) # {}
                /\ smtp'.recieve_buffer \o wire' =
                      SubSeq(Unconsumed, first + Len(term), Len(Unconsumed))
                /\ IF smtp.smtp_state = DATA
                   THEN /\ smtpLast'.kind = "data"
                        /\ delivered'.called
                        /\ delivered'.data = Unstuff(unit)
                        /\ smtp'.smtp_state = COMMAND
                   ELSE /\ smtpLast'.kind \in {"command", "unknown", "empty"}
                        /\ ~delivered'.called
                        /\ smtpLast'.kind = "empty" <=> unit = <<>>
                        /\ unit # <<>> =>
                              <<smtpLast'.command, smtpLast'.arg>> = ParseCommand(unit)
                        /\ smtp'.smtp_state = DATA <=>
                              /\ smtpLast'.kind = "command"
                              /\ smtpLast'.command = KW_DATA
                              /\ smtpOut' = <<354>>
      ]_vars

\* DATA, a block whose only line reads NOOP and a NOOP command arrived in one
\* chunk: the block was handed over as the message `NOOP`, and the command
\* after it is in the buffer, to be dispatched
C28_Witness ==
    /\ smtpLast.kind = "data"
    /\ smtpLast.pre.smtp_state = DATA
    /\ smtpLast.pre.recieve_buffer =
          send_data(<<"N","O","O","P">>) \o send_command(<<"N","O","O","P">>)
    /\ delivered.called
    /\ delivered.data = <<"N","O","O","P">>
    /\ smtp.smtp_state = COMMAND
    /\ smtp.recieve_buffer = send_command(<<"N","O","O","P">>)


--------------------------------------------------------------------------
(* Invariants of the SMTP session                                         *)

\* C27: in every state of the session a sender is set only if a greeting is
\* recorded, recipients are recorded only if a sender is set, and the state is
\* DATA only if recipients are recorded
C27_SessionInvariant ==
    /\ ~Falsy(smtp.mailfrom) => smtp.seen_greeting # <<>>
    /\ smtp.rcpttos # <<>> => ~Falsy(smtp.mailfrom)
    /\ smtp.smtp_state = DATA => smtp.rcpttos # <<>>

\* a session in DATA state with two recipients, a sender and a greeting,
\* whose message block the peer has sent
C27_Witness ==
    /\ smtp.smtp_state = DATA
    /\ Len(smtp.rcpttos) = 2
    /\ ~Falsy(smtp.mailfrom)
    /\ smtp.seen_greeting # <<>>
    /\ sentBlock.sent


--------------------------------------------------------------------------
(* Claims about commands that fail, and about replies                     *)

\* the last unit was an empty line, an unknown keyword, a VRFY, HELP or NOOP,
\* or a HELO, MAIL, RCPT, DATA or RSET answered with a 5xx code
FailedOrDiagnostic ==
    \/ smtpLast.kind \in {"empty", "unknown"}
    \/ /\ smtpLast.kind = "command"
       /\ \/ smtpLast.command \in
                { <<"V","R","F","Y">>, <<"H","E","L","P">>, <<"N","O","O","P">> }
          \/ /\ smtpLast.command \in {KW_HELO, KW_MAIL, KW_RCPT, KW_DATA, KW_RSET}
             /\ smtpOut # <<>>
             /\ smtpOut[1] >= 500

\* C32: a step that frames, in COMMAND state, an empty line, an unknown
\* keyword, a VRFY, HELP or NOOP with any argument, or a HELO, MAIL, RCPT, DATA
\* or RSET answered with a 5xx code leaves seen_greeting, mailfrom, rcpttos,
\* smtp_state and terminator as they were, sends one reply (500 for the empty
\* line and the unknown keyword) and leaves the session running, so that the
\* next line is read as a command
C32_FailureChangesNothing ==
    [][(FramesUnit /\ smtp.smtp_state = COMMAND /\ FailedOrDiagnostic') =>
            /\ smtp'.seen_greeting = smtp.seen_greeting
            /\ smtp'.mailfrom = smtp.mailfrom
            /\ smtp'.rcpttos = smtp.rcpttos
            /\ smtp'.smtp_state = COMMAND
            /\ smtp'.terminator = smtp.terminator
            /\ Len(smtpOut') = 1
            /\ smtpLast'.kind \in {"empty", "unknown"} => smtpOut' = <<500>>
            /\ smtpPc' = "run"
      ]_vars

\* a NOOP was handled while a greeting, a sender and a recipient were recorded,
\* and they are still recorded
C32_Witness ==
    /\ LastCommand(<<"N","O","O","P">>)
    /\ smtpOut = <<250>>
    /\ smtp.seen_greeting = <<"h">>
    /\ smtp.mailfrom = <<"a","@","x">>
    /\ smtp.rcpttos = << <<"b","@","x">> >>
    /\ smtpPc = "run"

\* C34: a step that frames a unit sends exactly one reply, and it is the reply
\* to the earliest unit that is complete in the receive buffer: the unit framed
\* is what precedes the first terminator, an empty line and an unknown keyword
\* included, a message block in DATA state, and exactly that unit and its
\* terminator leave the buffer, so that replies follow the order of arrival;
\* a step that frames no unit, the buffer lacking a terminator or the session
\* having ended, sends no reply
C34_Lockstep ==
    [][/\ FramesUnit =>
            LET first == Least(Occurrences(smtp.recieve_buffer, smtp.terminator))
                unit == SubSeq(smtp.recieve_buffer, 1, first - 1)
            IN  /\ Len(smtpOut') = 1
                /\ smtpLast'.pre = smtp
                /\ smtp'.recieve_buffer =
                      SubSeq(smtp.recieve_buffer, first + Len(smtp.terminator),
                             Len(smtp.recieve_buffer))
                /\ smtpLast'.kind = "data" <=> smtp.smtp_state = DATA
                /\ smtpLast'.kind = "empty" <=>
                      (smtp.smtp_state = COMMAND /\ unit = <<>>)
                /\ smtpLast'.kind \in {"command", "unknown"} =>
                      <<smtpLast'.command, smtpLast'.arg>> = ParseCommand(unit)
                /\ smtpLast'.kind = "unknown" => smtpOut' = <<500>>
                /\ smtpLast'.kind = "empty" => smtpOut' = <<500>>
       /\ ~FramesUnit => UNCHANGED <<smtpOut, smtpLast>>
       /\ ~Contains(smtp.recieve_buffer, smtp.terminator) => UNCHANGED smtpOut
      ]_vars

\* of the four lines HELP, empty, VRFY, FOO that arrived together, the third
\* has just been answered (501) while the fourth is still in the buffer, the
\* empty line before it having been answered
C34_Witness ==
    /\ LastCommand(<<"V","R","F","Y">>)
    /\ smtpOut = <<501>>
    /\ smtpLast.pre.recieve_buffer =
          <<"V","R","F","Y","\r","\n","F","O","O","\r","\n">>
    /\ smtp.recieve_buffer = <<"F","O","O","\r","\n">>
    /\ smtpPc = "run"

====
